---- MODULE Spec2Model ----
(***************************************************************************)
(* Model of the QM35 UWB transport core: the message dispatch table        *)
(* (base/qm/qm35_transport.c), the HSSPI framing engine                    *)
(* (spi/qm/qm35_hsspi.c), the worker thread (spi/qm/qm35_spi_thread.c) and *)
(* the SPI transport operations (spi/qm/qm35_spi_transport.c).             *)
(*                                                                         *)
(* The specifications of the module:                                       *)
(*   SpecDispatch  - handler table, qm35_transport_event, _send            *)
(*   SpecSend      - qm35_transport_send                                   *)
(*   SpecHsspi     - qm35_hsspi_send / qm35_hsspi_recv against a device    *)
(*   SpecOrch      - qm35_spi_send / qm35_spi_recv with their retries      *)
(*   SpecThread    - qm35_enqueue callers and the worker loop              *)
(*   SpecReset     - the same with reset and shutdown                      *)
(*   SpecBypassOps - the bypass operations of two threads                  *)
(*   SpecBypass    - the bypass operations of one thread and the frames    *)
(*                   of the device                                         *)
(***************************************************************************)
EXTENDS Integers, Sequences, FiniteSets, TLC

(***************************************************************************)
(* Error numbers used by the code (negated, as the code returns them).     *)
(***************************************************************************)
EPERM == 1
EINTR == 4
EAGAIN == 11
EIO == 5
EBADF == 9
EBUSY == 16
EFAULT == 14
EEXIST == 17
EINVAL == 22
ENOENT == 2
EPROTO == 71
EMSGSIZE == 90
EOPNOTSUPP == 95

NULL == "NULL"

(***************************************************************************)
(* Bounds of the model.                                                    *)
(***************************************************************************)
\* Number of message types (counted from BOOTLOADER) the environment uses.
NumTypesUsed == 1

(***************************************************************************)
(* Message dispatch table: enum qm35_transport_msg_type, priorities.       *)
(***************************************************************************)
QM35_TRANSPORT_MSG_UCI == 2
QM35_TRANSPORT_MSG_COREDUMP == 3
QM35_TRANSPORT_MSG_MAX == 6
QM35_TRANSPORT_PRIO_HIGH == 0
QM35_TRANSPORT_PRIO_NORMAL == 1
QM35_TRANSPORT_PRIO_COUNT == 2
MAX_RX_HANDLERS == QM35_TRANSPORT_MSG_MAX * QM35_TRANSPORT_PRIO_COUNT

\* Callbacks that clients register (their data pointer is their context).
Callbacks == {"cbA", "cbB"}
CallbackData == [cbA |-> "dataA", cbB |-> "dataB"]

\* Types a caller or the device may present: valid ones and one out of range.
TypeInputs == (1 .. NumTypesUsed) \cup {QM35_TRANSPORT_MSG_MAX}
PrioInputs == {QM35_TRANSPORT_PRIO_HIGH, QM35_TRANSPORT_PRIO_NORMAL,
               QM35_TRANSPORT_PRIO_COUNT}

EmptySlot == [cb |-> NULL, data |-> NULL]

VARIABLES
    rx_handlers,   \* qm35->rx_handlers[MAX_RX_HANDLERS]
    lastOp,        \* last register/unregister call: arguments, result, slot before
    ev,            \* qm35_transport_event in progress on the worker
    ts             \* qm35_transport_send in progress on a caller thread

dispatchVars == <<rx_handlers, lastOp, ev, ts>>

VARIABLES
    prd_done,       \* qmspi->prd_done
    prd_length,     \* qmspi->prd_length
    should_read,    \* qmspi->should_read
    should_write,   \* qmspi->should_write
    send_size,      \* qmspi->send_params.size
    work_send_ret,  \* qmspi->work_send.ret
    combined,       \* qm35_debug_flags & QMSPI_COMBINED_WRITE
    fr              \* framing call in progress on the worker, with what it did

hsspiVars == <<prd_done, prd_length, should_read, should_write, send_size,
               work_send_ret, combined, fr>>

VARIABLES
    pending_work,   \* wk->pending_work
    work,           \* wk->work: NIL (NULL) or a descriptor
    workTk,         \* ticket of the qm35_enqueue call that set wk->work
    mtx,            \* wk->mtx: NIL or the caller holding it
    irqDepth,       \* disable depth of the device interrupt (0: enabled)
    should_stop,    \* kthread_should_stop()
    wk,             \* the worker: position, local cmd with its ticket, ret
    callers,        \* per caller thread: position, operation, bootrom flag
    stack_ret,      \* ret field of each caller's stack descriptor
    bus,            \* threads inside a bus exchange
    work_counter,   \* number of Generic executions started by the worker
    lastExecTk,     \* ticket of the item the worker executed last
    lastComplTk,    \* ticket of the item the worker completed last
    nextTicket      \* next ticket to hand out at the exclusion lock

threadVars == <<pending_work, work, workTk, mtx, irqDepth, should_stop, wk,
                callers, stack_ret, bus, work_counter, lastExecTk, lastComplTk,
                nextTicket>>

VARIABLES
    orch,           \* qm35_spi_send / qm35_spi_recv call in progress: locals
    exton_gpio      \* qmspi->exton_gpio is defined (low-power signal line)

orchVars == <<orch, exton_gpio>>

VARIABLES
    bypass,         \* qm35->bypass_data with its channel (struct qm35_bypass)
    skbs,           \* received frames: length left, times freed
    bcall,          \* per thread: the bypass call in progress, its locals
    bret,           \* the bypass call that returned last
    module_refs,    \* references on the module taken by try_module_get()
    ev_skb,         \* frame held by the qm35_transport_event() in progress
    listener_oops   \* a NULL listener was called

bypassVars == <<bypass, skbs, bcall, bret, module_refs, ev_skb,
               listener_oops>>

VARIABLES
    probe           \* qm35_spi_probe() in progress: position, locals, result

probeVars == <<probe>>

VARIABLES
    power,             \* runtime PM state of the device, qmspi->started, supply
    pcall,          \* per thread: start/stop call in progress, starts held
    plast           \* the start or stop that acted last on the PM state

powerVars == <<power, pcall, plast>>

VARIABLES
    nf,             \* qm35_notifier_list, the device, contexts of the modules
    nlog            \* the last notification: event, deliveries, answers

notifVars == <<nf, nlog>>

VARIABLES
    send_params     \* qmspi->send_params: the caller whose parameters it holds

paramVars == <<send_params>>

VARIABLES
    regdev          \* the qm35_register_device() in progress: position, locals

regVars == <<regdev>>

coreVars == <<probeVars, powerVars, notifVars, paramVars, regVars>>

\* The groups above other than the one an operation works on.
notProbe == <<powerVars, notifVars, paramVars, regVars>>
notPower == <<probeVars, notifVars, paramVars, regVars>>
notNotif == <<probeVars, powerVars, paramVars, regVars>>
notParam == <<probeVars, powerVars, notifVars, regVars>>
notReg == <<probeVars, powerVars, paramVars>>

\* Everything of the framing engine but what the worker model writes.
hsspiRest == <<prd_done, prd_length, should_write, send_size, combined, fr>>

\* idx = type * QM35_TRANSPORT_PRIO_COUNT + prio
SlotIdx(type, prio) == type * QM35_TRANSPORT_PRIO_COUNT + prio

\* qm35_transport_register(): result and table after the call.
qm35_transport_register_overwrite(tbl, type, prio, callback, data) ==
    IF callback = NULL \/ type >= QM35_TRANSPORT_MSG_MAX
       \/ prio >= QM35_TRANSPORT_PRIO_COUNT
    THEN [ret |-> -EINVAL, tbl |-> tbl]
    ELSE [ret |-> 0,
          tbl |-> [tbl EXCEPT ![SlotIdx(type, prio)] =
                       [cb |-> callback, data |-> data]]]

qm35_transport_register(tbl, type, prio, callback, data) ==
    IF callback = NULL \/ type >= QM35_TRANSPORT_MSG_MAX
       \/ prio >= QM35_TRANSPORT_PRIO_COUNT
    THEN [ret |-> -EINVAL, tbl |-> tbl]
    ELSE IF tbl[SlotIdx(type, prio)].cb = NULL
         THEN [ret |-> 0,
               tbl |-> [tbl EXCEPT ![SlotIdx(type, prio)] =
                            [cb |-> callback, data |-> data]]]
         ELSE [ret |-> -EEXIST, tbl |-> tbl]

\* qm35_transport_unregister(): result and table after the call.
qm35_transport_unregister(tbl, type, prio, callback) ==
    IF callback = NULL \/ type >= QM35_TRANSPORT_MSG_MAX
       \/ prio >= QM35_TRANSPORT_PRIO_COUNT
    THEN [ret |-> -EINVAL, tbl |-> tbl]
    ELSE IF tbl[SlotIdx(type, prio)].cb = callback
         THEN [ret |-> 0,
               tbl |-> [tbl EXCEPT ![SlotIdx(type, prio)] = EmptySlot]]
         ELSE [ret |-> -EBADF, tbl |-> tbl]

\* qm35_transport_has_high_prio(): -EINVAL, 1 or 0.
qm35_transport_has_high_prio(tbl, type) ==
    IF type >= QM35_TRANSPORT_MSG_MAX
    THEN -EINVAL
    ELSE IF tbl[SlotIdx(type, QM35_TRANSPORT_PRIO_HIGH)].cb # NULL
         THEN 1 ELSE 0

\* qm35_transport_get_registered(): highest priority handler of a type.
qm35_transport_get_registered_normal_first(tbl, type) ==
    IF type >= QM35_TRANSPORT_MSG_MAX
    THEN [ret |-> -EINVAL, out |-> EmptySlot]
    ELSE LET n == SlotIdx(type, QM35_TRANSPORT_PRIO_NORMAL)
             h == SlotIdx(type, QM35_TRANSPORT_PRIO_HIGH)
             idx == IF tbl[n].cb = NULL THEN h ELSE n
         IN IF tbl[idx].cb # NULL
            THEN [ret |-> 0, out |-> tbl[idx]]
            ELSE [ret |-> -ENOENT, out |-> EmptySlot]

qm35_transport_get_registered(tbl, type) ==
    IF type >= QM35_TRANSPORT_MSG_MAX
    THEN [ret |-> -EINVAL, out |-> EmptySlot]
    ELSE LET h == SlotIdx(type, QM35_TRANSPORT_PRIO_HIGH)
             idx == IF tbl[h].cb = NULL THEN h + 1 ELSE h
         IN IF tbl[idx].cb # NULL
            THEN [ret |-> 0, out |-> tbl[idx]]
            ELSE [ret |-> -ENOENT, out |-> EmptySlot]

(***************************************************************************)
(* qm35_transport_event(): the three steps of one call on the worker.      *)
(*   recv    - alloc_skb and transport_ops->recv()                         *)
(*   lookup  - qm35_transport_get_registered() under qm35->lock            *)
(*   call    - handler.cb(handler.data, skb), outside the lock             *)
(* The record keeps what the call observed: the handlers invoked for the   *)
(* frame, how often the skb was freed by the dispatch layer, how often     *)
(* recv was called, and the two slots of the type as seen by the lookup.   *)
(***************************************************************************)
EvIdle ==
    [pc |-> "idle", type |-> 0, handler |-> EmptySlot, rc |-> 0,
     invoked |-> <<>>, freed |-> 0, recvCalls |-> 0,
     looked |-> FALSE, high |-> NULL, normal |-> NULL, stale |-> FALSE]

\* Lines 269-284: receive the frame; on error free the skb and return rc.
qm35_transport_event_recv(rc, type) ==
    IF rc < 0
    THEN [EvIdle EXCEPT !.pc = "done", !.rc = rc, !.freed = 1,
                        !.recvCalls = 1]
    ELSE [EvIdle EXCEPT !.pc = "recvd", !.type = type, !.rc = rc,
                        !.recvCalls = 1]

\* Slot content of a type as seen under the lock (NULL when out of range).
SlotCb(tbl, type, prio) ==
    IF type >= QM35_TRANSPORT_MSG_MAX THEN NULL
    ELSE tbl[SlotIdx(type, prio)].cb

\* Lines 286-290: handler lookup; without handler free the skb, -EOPNOTSUPP.
qm35_transport_event_lookup_silent(e, tbl) ==
    LET r == qm35_transport_get_registered(tbl, e.type)
        seen == [e EXCEPT !.looked = TRUE,
                   !.high = SlotCb(tbl, e.type, QM35_TRANSPORT_PRIO_HIGH),
                   !.normal = SlotCb(tbl, e.type, QM35_TRANSPORT_PRIO_NORMAL)]
    IN IF r.ret < 0
       THEN [seen EXCEPT !.pc = "done", !.rc = 0]
       ELSE [seen EXCEPT !.pc = "found", !.handler = r.out]

qm35_transport_event_lookup(e, tbl) ==
    LET r == qm35_transport_get_registered(tbl, e.type)
        seen == [e EXCEPT !.looked = TRUE,
                   !.high = SlotCb(tbl, e.type, QM35_TRANSPORT_PRIO_HIGH),
                   !.normal = SlotCb(tbl, e.type, QM35_TRANSPORT_PRIO_NORMAL)]
    IN IF r.ret < 0
       THEN [seen EXCEPT !.pc = "done", !.rc = -EOPNOTSUPP,
                         !.freed = e.freed + 1]
       ELSE [seen EXCEPT !.pc = "found", !.handler = r.out]

\* Lines 291-293: call the handler found by the lookup, return 0.
\* stale: the callback is in no slot of the type any more when it is called.
qm35_transport_event_call(e, tbl) ==
    [e EXCEPT !.pc = "done", !.rc = 0,
              !.invoked = Append(e.invoked, e.handler.cb),
              !.stale = \A p \in {QM35_TRANSPORT_PRIO_HIGH,
                                  QM35_TRANSPORT_PRIO_NORMAL} :
                            SlotCb(tbl, e.type, p) # e.handler.cb]

(***************************************************************************)
(* qm35_transport_send(): the high-priority check under the lock, then the *)
(* transport send operation outside of it.                                 *)
(***************************************************************************)
TsIdle ==
    [pc |-> "idle", type |-> 0, ret |-> 0, sendCalls |-> 0, opsRet |-> 0,
     high |-> NULL]

\* Results the transport send operation (qm35_spi_send) may return.
OpsSendResults == {0, -EBUSY, -EAGAIN, -EIO}

\* Lines 179-181: ret = has_high_prio(); if (ret) return ret < 0 ? ret : -EBUSY
qm35_transport_send_check_ignore_high(tbl, type) ==
    LET ret == qm35_transport_has_high_prio(tbl, type)
        t == [TsIdle EXCEPT !.type = type,
                 !.high = SlotCb(tbl, type, QM35_TRANSPORT_PRIO_HIGH)]
    IN IF ret < 0
       THEN [t EXCEPT !.pc = "done", !.ret = ret]
       ELSE [t EXCEPT !.pc = "checked"]

qm35_transport_send_check(tbl, type) ==
    LET ret == qm35_transport_has_high_prio(tbl, type)
        t == [TsIdle EXCEPT !.type = type,
                 !.high = SlotCb(tbl, type, QM35_TRANSPORT_PRIO_HIGH)]
    IN IF ret # 0
       THEN [t EXCEPT !.pc = "done", !.ret = IF ret < 0 THEN ret ELSE -EBUSY]
       ELSE [t EXCEPT !.pc = "checked"]

\* Line 182: return qm35->transport_ops->send(qm35, type, data, length)
qm35_transport_send_ops(t, r) ==
    [t EXCEPT !.pc = "done", !.ret = r, !.opsRet = r,
              !.sendCalls = t.sendCalls + 1]

NoOp == [op |-> "none", type |-> 0, prio |-> 0, cb |-> NULL, ret |-> 0]

\* Arguments of a register/unregister call: all valid ones, and each way of
\* passing one invalid argument (type or priority out of range, no callback).
RegArgs ==
    {a \in [type : TypeInputs, prio : PrioInputs, cb : Callbacks \cup {NULL}] :
        Cardinality({x \in {"t", "p", "c"} :
            \/ x = "t" /\ a.type >= QM35_TRANSPORT_MSG_MAX
            \/ x = "p" /\ a.prio >= QM35_TRANSPORT_PRIO_COUNT
            \/ x = "c" /\ a.cb = NULL}) <= 1}

Register ==
    \E a \in RegArgs :
        LET r == qm35_transport_register(rx_handlers, a.type, a.prio, a.cb,
                     IF a.cb = NULL THEN NULL ELSE CallbackData[a.cb])
        IN /\ rx_handlers' = r.tbl
           /\ lastOp' = [op |-> "register", type |-> a.type, prio |-> a.prio,
                         cb |-> a.cb, ret |-> r.ret]
           /\ UNCHANGED <<ev, ts, hsspiVars, threadVars,
                        orchVars, bypassVars, coreVars>>

Unregister ==
    \E a \in RegArgs :
        LET r == qm35_transport_unregister(rx_handlers, a.type, a.prio, a.cb)
        IN /\ rx_handlers' = r.tbl
           /\ lastOp' = [op |-> "unregister", type |-> a.type,
                         prio |-> a.prio, cb |-> a.cb, ret |-> r.ret]
           /\ UNCHANGED <<ev, ts, hsspiVars, threadVars,
                        orchVars, bypassVars, coreVars>>

\* Results of transport_ops->recv: an error or the payload length.
OpsRecvResults == {-EAGAIN, 1}

EventRecv ==
    /\ ev.pc \in {"idle", "done"}
    /\ \E rc \in OpsRecvResults, type \in TypeInputs :
           ev' = qm35_transport_event_recv(rc, type)
    /\ UNCHANGED <<rx_handlers, lastOp, ts>>
    /\ UNCHANGED <<hsspiVars, threadVars, orchVars, bypassVars, coreVars>>

EventLookup ==
    /\ ev.pc = "recvd"
    /\ ev' = qm35_transport_event_lookup(ev, rx_handlers)
    /\ UNCHANGED <<rx_handlers, lastOp, ts>>
    /\ UNCHANGED <<hsspiVars, threadVars, orchVars, bypassVars, coreVars>>

EventCall ==
    /\ ev.pc = "found"
    /\ ev' = qm35_transport_event_call(ev, rx_handlers)
    /\ UNCHANGED <<rx_handlers, lastOp, ts>>
    /\ UNCHANGED <<hsspiVars, threadVars, orchVars, bypassVars, coreVars>>

SendCheck ==
    /\ ts.pc \in {"idle", "done"}
    /\ \E type \in TypeInputs :
           ts' = qm35_transport_send_check(rx_handlers, type)
    /\ UNCHANGED <<rx_handlers, lastOp, ev>>
    /\ UNCHANGED <<hsspiVars, threadVars, orchVars, bypassVars, coreVars>>

SendOps ==
    /\ ts.pc = "checked"
    /\ \E r \in OpsSendResults : ts' = qm35_transport_send_ops(ts, r)
    /\ UNCHANGED <<rx_handlers, lastOp, ev>>
    /\ UNCHANGED <<hsspiVars, threadVars, orchVars, bypassVars, coreVars>>

DispatchNext ==
    \/ Register
    \/ Unregister
    \/ EventRecv
    \/ EventLookup
    \/ EventCall

SendNext ==
    \/ Register
    \/ Unregister
    \/ SendCheck
    \/ SendOps

(***************************************************************************)
(* HSSPI framing engine (spi/qm/qm35_hsspi.c) with the work functions that *)
(* call it on the worker (qm35_send_work, qm35_recv_work and the header    *)
(* check of qm35_wait_ready_work).                                         *)
(***************************************************************************)
\* enum hsspi_flags_soc: the bits the framing code tests.
HSSPI_SOC_RDY == 32
HSSPI_SOC_OA == 64
HSSPI_SOC_ODW == 128

\* Largest payload length the modelled device announces or echoes.
MaxLen == 2

\* flags & bit, for a single-bit mask.
HasFlag(flags, bit) == (flags \div bit) % 2 = 1

\* Echoed SOC flag bytes: every combination of RDY, OA and ODW (0x00 is the
\* empty one) and 0xff.
SocFlags == {r + o + d : r \in {0, HSSPI_SOC_RDY}, o \in {0, HSSPI_SOC_OA},
                         d \in {0, HSSPI_SOC_ODW}} \cup {255}
SocLengths == 0 .. MaxLen
\* Results of spi_sync() and of qm35_hsspi_wait_ready().
SpiSyncResults == {0, -EIO}
WaitReadyResults == {0, -EAGAIN}

FrIdle ==
    [pc |-> "idle", op |-> "none", check |-> FALSE, size |-> 0,
     do_prd |-> FALSE, length |-> 0, ret |-> 0,
     prdCount |-> 0, chkCount |-> 0, rdCount |-> 0, wrCount |-> 0,
     validAtStart |-> FALSE, lenAtStart |-> 0, prdLen |-> 0,
     echoLen |-> 0, echoFlags |-> 0, rdOk |-> FALSE, notReady |-> FALSE,
     recorded |-> FALSE,
     prevOp |-> "none", prevRet |-> 0, prevRecorded |-> FALSE]

\* A new call: counters cleared, the previous call remembered.
FrNew(op) ==
    [FrIdle EXCEPT !.op = op, !.prevOp = fr.op, !.prevRet = fr.ret,
                   !.prevRecorded = fr.recorded,
                   !.validAtStart = prd_done, !.lenAtStart = prd_length]

\* qm35_hsspi_prd() after its exchange: result and whether the announced
\* length is saved (prd_length set, prd_done true).
qm35_hsspi_prd(check, spi, flags, length) ==
    IF spi # 0 THEN [ret |-> spi, save |-> FALSE]
    ELSE IF check THEN [ret |-> 0, save |-> FALSE]
    ELSE IF ~HasFlag(flags, HSSPI_SOC_ODW) \/ length = 0
         THEN [ret |-> -EAGAIN, save |-> FALSE]
         ELSE [ret |-> 0, save |-> TRUE]

\* qm35_hsspi_send() lines 337-348: result from the echoed header and
\* whether the opportunistic pre-read is recorded.
qm35_hsspi_send_status(do_prd, flags, length) ==
    [ret |-> IF flags = 0 \/ flags = 255 THEN -EBUSY
             ELSE IF ~HasFlag(flags, HSSPI_SOC_RDY) THEN -EAGAIN
             ELSE 0,
     save |-> do_prd /\ HasFlag(flags, HSSPI_SOC_ODW) /\ length # 0]

\* qm35_hsspi_recv() lines 469-489: result from the echoed header of the
\* read exchange and whether prd_done is reset.
qm35_hsspi_recv_status_keep_on_eproto(length, flags, echoLen) ==
    LET ret == IF echoLen # length THEN -EPROTO
               ELSE IF ~HasFlag(flags, HSSPI_SOC_OA) THEN -EAGAIN
               ELSE 0
    IN [ret |-> IF ret = 0 THEN length ELSE ret,
        reset |-> ret = 0 \/ HasFlag(flags, HSSPI_SOC_ODW)]

qm35_hsspi_recv_status_always_reset(length, flags, echoLen) ==
    LET ret == IF echoLen # length THEN -EPROTO
               ELSE IF ~HasFlag(flags, HSSPI_SOC_OA) THEN -EAGAIN
               ELSE 0
    IN [ret |-> IF ret = 0 THEN length ELSE ret, reset |-> TRUE]

qm35_hsspi_recv_status(length, flags, echoLen) ==
    LET ret == IF echoLen # length THEN -EPROTO
               ELSE IF ~HasFlag(flags, HSSPI_SOC_OA) THEN -EAGAIN
               ELSE 0
    IN [ret |-> IF ret = 0 THEN length ELSE ret,
        reset |-> ret = 0 \/ ret = -EPROTO \/ HasFlag(flags, HSSPI_SOC_ODW)]

\* qm35_hsspi_recv() line 397: the pre-read is done only without a valid
\* pending read.
NeedsPrd_always(done) == TRUE

NeedsPrd(done) == ~done

\* qm35_irq_handler() line 210: should_read is set (the worker is not part of
\* the framing specification; IrqHandler below also queues the IRQ work).
IrqSetsShouldRead ==
    /\ should_read' = TRUE
    /\ UNCHANGED <<prd_done, prd_length, should_write, send_size,
                   work_send_ret, combined, fr>>
    /\ UNCHANGED <<dispatchVars, threadVars, orchVars, bypassVars, coreVars>>

\* qm35_spi_send() lines 567-571: send_params copied, should_write set when
\* combined writes are enabled.
SpiSendParams ==
    /\ fr.pc \in {"idle", "done"}
    /\ \E size \in 1 .. MaxLen : send_size' = size
    /\ should_write' = (combined \/ should_write)
    /\ UNCHANGED <<prd_done, prd_length, should_read, work_send_ret,
                   combined, fr>>
    /\ UNCHANGED <<dispatchVars, threadVars, orchVars, bypassVars, coreVars>>

\* qm35_send_work() up to the exchange of qm35_hsspi_send(): the framing
\* call it leaves in progress (wr is the result of qm35_hsspi_wait_ready).
qm35_send_work_start(wr) ==
    LET f == [FrNew("send") EXCEPT !.size = send_size,
                                   !.do_prd = should_read]
    IN IF combined /\ ~should_write
       THEN [f EXCEPT !.pc = "done", !.ret = work_send_ret]
       ELSE IF wr # 0
       THEN [f EXCEPT !.pc = "done", !.ret = wr, !.notReady = TRUE]
       ELSE [f EXCEPT !.pc = "send_xfer"]

SendStart ==
    /\ fr.pc \in {"idle", "done"}
    /\ send_size > 0
    /\ \E wr \in WaitReadyResults : fr' = qm35_send_work_start(wr)
    /\ UNCHANGED <<prd_done, prd_length, should_read, should_write,
                   send_size, work_send_ret, combined>>
    /\ UNCHANGED <<dispatchVars, threadVars, orchVars, bypassVars, coreVars>>

\* The write exchange of qm35_hsspi_send() and the end of qm35_send_work().
SendXfer ==
    /\ fr.pc = "send_xfer"
    /\ \E spi \in SpiSyncResults, flags \in SocFlags, len \in SocLengths :
           LET st == qm35_hsspi_send_status(fr.do_prd, flags, len)
               ret == IF spi # 0 THEN spi ELSE st.ret
               save == spi = 0 /\ st.save
           IN /\ fr' = [fr EXCEPT !.pc = "done", !.ret = ret,
                                  !.wrCount = fr.wrCount + 1,
                                  !.echoFlags = IF spi = 0 THEN flags ELSE 0,
                                  !.echoLen = IF spi = 0 THEN len ELSE 0,
                                  !.recorded = save]
              /\ prd_done' = (save \/ prd_done)
              /\ prd_length' = IF save THEN len ELSE prd_length
              /\ should_write' = IF ret = 0 /\ combined THEN FALSE
                                 ELSE should_write
    /\ UNCHANGED <<should_read, send_size, work_send_ret, combined>>
    /\ UNCHANGED <<dispatchVars, threadVars, orchVars, bypassVars, coreVars>>

\* qm35_hsspi_recv() lines 386-402, up to its first exchange: the framing
\* call it leaves in progress.
qm35_hsspi_recv_start(check, size, wr) ==
    LET f == [FrNew("recv") EXCEPT !.check = check, !.size = size]
        ret == IF ~check /\ size = 0 THEN -EINVAL
               ELSE IF ~check THEN wr ELSE 0
    IN IF ret # 0
       THEN [f EXCEPT !.pc = "done", !.ret = ret, !.notReady = (wr # 0)]
       ELSE IF NeedsPrd(prd_done)
       THEN [f EXCEPT !.pc = "recv_prd"]
       ELSE [f EXCEPT !.pc = "recv_ready"]

\* qm35_recv_work() (check = FALSE) or the header check of
\* qm35_wait_ready_work() (check = TRUE, no buffer), up to the first
\* exchange of qm35_hsspi_recv().
RecvStart ==
    /\ fr.pc \in {"idle", "done"}
    /\ \E check \in BOOLEAN, size \in 0 .. MaxLen, wr \in WaitReadyResults :
           /\ check => (size = 0 /\ wr = 0)
           /\ size = 0 => wr = 0
           /\ fr' = qm35_hsspi_recv_start(check, size, wr)
           /\ should_read' = IF check THEN should_read ELSE FALSE
    /\ UNCHANGED <<prd_done, prd_length, should_write, send_size,
                   work_send_ret, combined>>
    /\ UNCHANGED <<dispatchVars, threadVars, orchVars, bypassVars, coreVars>>

\* qm35_hsspi_prd(): the header-only exchange.
RecvPrd ==
    /\ fr.pc = "recv_prd"
    /\ \E spi \in SpiSyncResults, flags \in SocFlags, len \in SocLengths :
           LET r == qm35_hsspi_prd(fr.check, spi, flags, len)
               f == [fr EXCEPT
                       !.prdCount = IF fr.check THEN @ ELSE @ + 1,
                       !.chkCount = IF fr.check THEN @ + 1 ELSE @,
                       !.prdLen = IF r.save THEN len ELSE 0]
           IN /\ fr' = IF r.ret # 0 \/ fr.check
                       THEN [f EXCEPT !.pc = "done", !.ret = r.ret]
                       ELSE [f EXCEPT !.pc = "recv_ready"]
              /\ prd_done' = (r.save \/ prd_done)
              /\ prd_length' = IF r.save THEN len ELSE prd_length
    /\ UNCHANGED <<should_read, should_write, send_size, work_send_ret,
                   combined>>
    /\ UNCHANGED <<dispatchVars, threadVars, orchVars, bypassVars, coreVars>>

\* qm35_hsspi_recv() lines 403-417: buffer size check and ready wait.
RecvReady ==
    /\ fr.pc = "recv_ready"
    /\ \E wr \in WaitReadyResults :
           IF fr.size < prd_length
           THEN /\ wr = 0
                /\ fr' = [fr EXCEPT !.pc = "done", !.ret = -EMSGSIZE]
                /\ prd_done' = FALSE
           ELSE /\ fr' = IF wr # 0
                         THEN [fr EXCEPT !.pc = "done", !.ret = wr,
                                         !.length = prd_length,
                                         !.notReady = TRUE]
                         ELSE [fr EXCEPT !.pc = "recv_read",
                                         !.length = prd_length]
                /\ UNCHANGED prd_done
    /\ UNCHANGED <<prd_length, should_read, should_write, send_size,
                   work_send_ret, combined>>
    /\ UNCHANGED <<dispatchVars, threadVars, orchVars, bypassVars, coreVars>>

\* qm35_hsspi_recv() lines 447-489: the outcome of the read exchange, where
\* wr tells that the host header carries HSSPI_HOST_WR (a combined write);
\* send_ret is qmspi->work_send.ret before the exchange.
qm35_hsspi_recv_read_write_error(wr, length, spi, flags, len, send_ret) ==
    LET st == qm35_hsspi_recv_status(length, flags, len)
        ready == HasFlag(flags, HSSPI_SOC_RDY)
    IN [ret |-> IF spi # 0 THEN spi
                ELSE IF wr /\ ~ready THEN -EAGAIN ELSE st.ret,
        reset |-> spi = 0 /\ st.reset,
        send_ret |-> IF spi # 0 \/ ~wr THEN send_ret
                     ELSE IF ~ready THEN -EAGAIN ELSE 0,
        written |-> spi = 0 /\ wr /\ ready]

qm35_hsspi_recv_read(wr, length, spi, flags, len, send_ret) ==
    LET st == qm35_hsspi_recv_status(length, flags, len)
        ready == HasFlag(flags, HSSPI_SOC_RDY)
    IN [ret |-> IF spi # 0 THEN spi ELSE st.ret,
        reset |-> spi = 0 /\ st.reset,
        send_ret |-> IF spi # 0 \/ ~wr THEN send_ret
                     ELSE IF ~ready THEN -EAGAIN ELSE 0,
        written |-> spi = 0 /\ wr /\ ready]

\* qm35_hsspi_recv() lines 419-489: the read exchange, with the combined
\* write when one is queued and fits the buffer.
RecvRead ==
    /\ fr.pc = "recv_read"
    /\ \E spi \in SpiSyncResults, flags \in SocFlags, len \in SocLengths :
           LET wr == should_write /\ ~(send_size > fr.size)
               r == qm35_hsspi_recv_read(wr, fr.length, spi, flags, len,
                                         work_send_ret)
               f == [fr EXCEPT !.pc = "done", !.rdCount = @ + 1,
                               !.wrCount = IF wr THEN @ + 1 ELSE @,
                               !.ret = r.ret]
           IN /\ fr' = IF spi # 0 THEN f
                       ELSE [f EXCEPT !.echoLen = len, !.echoFlags = flags,
                                      !.rdOk = TRUE]
              /\ prd_done' = IF r.reset THEN FALSE ELSE prd_done
              /\ work_send_ret' = r.send_ret
              /\ should_write' = IF r.written THEN FALSE ELSE should_write
    /\ UNCHANGED <<prd_length, should_read, send_size, combined>>
    /\ UNCHANGED <<dispatchVars, threadVars, orchVars, bypassVars, coreVars>>

HsspiNext ==
    \/ IrqSetsShouldRead
    \/ SpiSendParams
    \/ SendStart
    \/ SendXfer
    \/ RecvStart
    \/ RecvPrd
    \/ RecvReady
    \/ RecvRead

(***************************************************************************)
(* Send/receive orchestrator (spi/qm/qm35_spi_transport.c): qm35_spi_send  *)
(* and qm35_spi_recv with their power resume and retry loops.  Each        *)
(* qm35_enqueue is one attempt: the work function starts a framing call,   *)
(* the framing actions above run it, and the attempt ends with its result. *)
(***************************************************************************)
QM35_HSSPI_RETRY_COUNT == 3

\* Results of qm35_spi_pm_resume(): 0 or the power supply's error.
PmResumeResults == {0, -EIO}

OrchIdle ==
    [pc |-> "idle", op |-> "none", retry_count |-> 0, ret |-> 0,
     size |-> 0, wakeup |-> FALSE, attempts |-> 0, busy |-> 0, wakeups |-> 0]

\* qm35_hsspi_wakeup(): whether a wake-up sequence is issued.  With an EXTON
\* line its level decides (active: nothing to do); without one, force does.
qm35_hsspi_wakeup(force, exton, extonActive) ==
    IF exton THEN ~extonActive ELSE force

\* Loop conditions of the retry loops, before the test of retry_count.
SendRetryable(ret) == ret = -EAGAIN \/ ret = -EBUSY
RecvRetryable(ret) == ret = -EAGAIN

\* qm35_spi_send() lines 549-576: parameters saved, should_write set with
\* combined writes, power resumed.
OrchSendBegin ==
    /\ orch.pc \in {"idle", "done"}
    /\ fr.pc \in {"idle", "done"}
    /\ \E size \in 1 .. MaxLen, pm \in PmResumeResults :
           /\ send_size' = size
           /\ orch' = [OrchIdle EXCEPT
                         !.op = "send", !.size = size,
                         !.retry_count = QM35_HSSPI_RETRY_COUNT,
                         !.pc = IF pm # 0 THEN "done" ELSE "send_enq",
                         !.ret = pm]
    /\ should_write' = (combined \/ should_write)
    /\ UNCHANGED <<prd_done, prd_length, should_read, work_send_ret,
                   combined, fr, exton_gpio>>
    /\ UNCHANGED <<dispatchVars, threadVars, bypassVars, coreVars>>

\* qm35_enqueue(&qmspi->work_send) and qm35_send_work() up to the exchange:
\* the wake-up, then the framing send starts; or the enqueue is interrupted
\* by a signal before the worker takes the item.
OrchSendWork ==
    /\ orch.pc = "send_enq"
    /\ \/ \E wr \in WaitReadyResults, extonActive \in BOOLEAN :
             /\ ~exton_gpio => extonActive
             /\ fr' = qm35_send_work_start(wr)
             /\ orch' = [orch EXCEPT
                           !.pc = "send_wait",
                           !.attempts = @ + 1,
                           !.wakeups =
                               IF qm35_hsspi_wakeup(orch.wakeup, exton_gpio,
                                                    extonActive)
                               THEN @ + 1 ELSE @]
             /\ UNCHANGED work_send_ret
       \/ /\ orch' = [orch EXCEPT !.pc = "send_exit", !.ret = -EINTR,
                                  !.attempts = @ + 1]
          /\ work_send_ret' = -EINTR
          /\ UNCHANGED fr
    /\ UNCHANGED <<prd_done, prd_length, should_read, should_write,
                   send_size, combined, exton_gpio>>
    /\ UNCHANGED <<dispatchVars, threadVars, bypassVars, coreVars>>

\* qm35_enqueue() returns the result of the work (qm35_dequeue stores it in
\* work_send.ret) and the loop at lines 578-586 decides on a retry.  The
\* framing call has returned: its locals are gone.
OrchSendResult ==
    /\ orch.pc = "send_wait"
    /\ fr.pc = "done"
    /\ work_send_ret' = fr.ret
    /\ orch' = LET o == [orch EXCEPT
                           !.ret = fr.ret,
                           !.busy = IF fr.ret = -EBUSY THEN @ + 1 ELSE @,
                           !.retry_count =
                               IF SendRetryable(fr.ret) THEN @ - 1 ELSE @]
               IN IF SendRetryable(fr.ret) /\ orch.retry_count # 0
                  THEN [o EXCEPT !.pc = "send_enq",
                                 !.wakeup = (fr.ret = -EBUSY /\ ~exton_gpio)]
                  ELSE [o EXCEPT !.pc = "send_exit"]
    /\ fr' = FrIdle
    /\ UNCHANGED <<prd_done, prd_length, should_read, should_write,
                   send_size, combined, exton_gpio>>
    /\ UNCHANGED <<dispatchVars, threadVars, bypassVars, coreVars>>

\* Lines 587-595: should_write dropped when retry_count is zero, idle
\* requested, the result returned.
OrchSendEnd ==
    /\ orch.pc = "send_exit"
    /\ should_write' = IF orch.retry_count = 0 /\ combined THEN FALSE
                       ELSE should_write
    /\ orch' = [orch EXCEPT !.pc = "done"]
    /\ UNCHANGED <<prd_done, prd_length, should_read, send_size,
                   work_send_ret, combined, fr, exton_gpio>>
    /\ UNCHANGED <<dispatchVars, threadVars, bypassVars, coreVars>>

\* qm35_spi_recv() lines 659-675: the buffer, power resumed.
OrchRecvBegin ==
    /\ orch.pc \in {"idle", "done"}
    /\ fr.pc \in {"idle", "done"}
    /\ \E size \in 1 .. MaxLen, pm \in PmResumeResults :
           orch' = [OrchIdle EXCEPT
                      !.op = "recv", !.size = size,
                      !.retry_count = QM35_HSSPI_RETRY_COUNT,
                      !.pc = IF pm # 0 THEN "done" ELSE "recv_enq",
                      !.ret = pm]
    /\ UNCHANGED <<prd_done, prd_length, should_read, should_write,
                   send_size, work_send_ret, combined, fr, exton_gpio>>
    /\ UNCHANGED <<dispatchVars, threadVars, bypassVars, coreVars>>

\* qm35_enqueue(&qmspi->work_recv) and qm35_recv_work() up to the first
\* exchange: wake-up without force, should_read cleared, framing recv starts.
OrchRecvWork ==
    /\ orch.pc = "recv_enq"
    /\ \E wr \in WaitReadyResults, extonActive \in BOOLEAN :
           /\ ~exton_gpio => extonActive
           /\ fr' = qm35_hsspi_recv_start(FALSE, orch.size, wr)
           /\ orch' = [orch EXCEPT
                         !.pc = "recv_wait",
                         !.attempts = @ + 1,
                         !.wakeups =
                             IF qm35_hsspi_wakeup(FALSE, exton_gpio,
                                                  extonActive)
                             THEN @ + 1 ELSE @]
    /\ should_read' = FALSE
    /\ UNCHANGED <<prd_done, prd_length, should_write, send_size,
                   work_send_ret, combined, exton_gpio>>
    /\ UNCHANGED <<dispatchVars, threadVars, bypassVars, coreVars>>

\* The loop at lines 677-682 and the end of qm35_spi_recv(): on an error
\* that ends the loop prd_done is cleared.
OrchRecvResult ==
    /\ orch.pc = "recv_wait"
    /\ fr.pc = "done"
    /\ LET o == [orch EXCEPT
                   !.ret = fr.ret,
                   !.retry_count = IF RecvRetryable(fr.ret) THEN @ - 1 ELSE @]
       IN IF RecvRetryable(fr.ret) /\ orch.retry_count # 0
          THEN /\ orch' = [o EXCEPT !.pc = "recv_enq"]
               /\ UNCHANGED prd_done
          ELSE /\ orch' = [o EXCEPT !.pc = "done"]
               /\ prd_done' = IF fr.ret >= 0 THEN prd_done ELSE FALSE
    /\ fr' = FrIdle
    /\ UNCHANGED <<prd_length, should_read, should_write, send_size,
                   work_send_ret, combined, exton_gpio>>
    /\ UNCHANGED <<dispatchVars, threadVars, bypassVars, coreVars>>

\* The orchestrator, the framing exchanges it waits for, and the interrupt
\* line.
OrchNext ==
    \/ IrqSetsShouldRead
    \/ OrchSendBegin
    \/ OrchSendWork
    \/ OrchSendResult
    \/ OrchSendEnd
    \/ OrchRecvBegin
    \/ OrchRecvWork
    \/ OrchRecvResult
    \/ SendXfer
    \/ RecvPrd
    \/ RecvReady
    \/ RecvRead

(***************************************************************************)
(* Bypass channel (base/qm/qm35_bypass.c): open, close, control, send and  *)
(* recv called by threads of any process, and qm35_transport_event()       *)
(* delivering frames to qm35_bypass_event_cb().  A region under            *)
(* bypass->lock or under hnd->lock is one step; what a call does outside   *)
(* the locks (qm35_bypass_set_expected() from qm35_bypass_control(), the   *)
(* transport operations, the copy to the user) are steps of their own.     *)
(***************************************************************************)
\* Number of frames the device delivers.
MaxFrames == 2
\* The threads that call the bypass operations.
BThreads == {1, 2}
\* Values of current->tgid.
Tgids == {1, 2}
\* Message types the bypass is asked to expect and the device sends.
BypassTypes == {QM35_TRANSPORT_MSG_UCI, QM35_TRANSPORT_MSG_COREDUMP}
qm35_bypass_event_cb == "qm35_bypass_event_cb"
\* The Normal priority consumer of coredump frames.
NormalConsumer == [cb |-> "cbA", data |-> CallbackData["cbA"]]

\* struct qm35_bypass after qm35_core zeroes it.  listener: hnd->listener
\* is not NULL; packets: the list hnd->packets; opens: opens that returned
\* success since the last successful close, not counting an open whose
\* channel was closed before it returned.
BypassZero ==
    [opened |-> FALSE, owner |-> 0, expected_type |-> 0,
     listener |-> FALSE, packets |-> <<>>, opens |-> 0]

\* A frame slot that has not been allocated.
SkbNone == [len |-> 0, freed |-> 0]

\* Locals of a call: tgid is current->tgid, arg the type to expect, len the
\* size of the caller's buffer, skb the packet taken from the queue.
\* closed: the channel this qm35_bypass_open() opened has been closed by a
\* qm35_bypass_close() since.
BCallIdle ==
    [pc |-> "idle", op |-> "none", tgid |-> 0, rc |-> 0, arg |-> 0,
     len |-> 0, skb |-> 0, closed |-> FALSE]

BCallFree(t) == bcall[t].pc = "idle"

\* The call that returned last: operation, caller's tgid and result.
BRetNone == [op |-> "none", tgid |-> 0, rc |-> 0]

\* A call that reached its return statement leaves its thread idle.
BCommit(nb) ==
    /\ bcall' = [t \in DOMAIN nb |->
                    IF nb[t].pc = "done" THEN BCallIdle ELSE nb[t]]
    /\ bret' = IF \E t \in DOMAIN nb : nb[t].pc = "done"
               THEN LET t == CHOOSE u \in DOMAIN nb : nb[u].pc = "done"
                    IN [op |-> nb[t].op, tgid |-> nb[t].tgid,
                        rc |-> nb[t].rc]
               ELSE bret

BControlActions == {"reset", "fwupd", "power", "msgtype"}

\* Results of the transport operations the bypass calls.
BOpsResults == {0, -EIO}

qm35_bypass_check_any_owner(b, tgid) ==
    IF ~b.opened THEN -EBADF ELSE 0

qm35_bypass_check(b, tgid) ==
    IF ~b.opened THEN -EBADF
    ELSE IF b.owner # tgid THEN -EPERM
    ELSE 0

Range(q) == {q[i] : i \in 1 .. Len(q)}

kfree_skb(s, ids) ==
    [i \in DOMAIN s |-> IF i \in ids THEN [s[i] EXCEPT !.freed = @ + 1]
                        ELSE s[i]]

\* qm35_bypass_cleanup(): handler removed, queued frames freed, reference
\* dropped, fields reset.  rc is the number of frames freed.
qm35_bypass_cleanup(b, tbl, s) ==
    [rc |-> Len(b.packets),
     tbl |-> IF b.expected_type # QM35_TRANSPORT_MSG_MAX
             THEN qm35_transport_unregister(tbl, b.expected_type,
                      QM35_TRANSPORT_PRIO_HIGH, qm35_bypass_event_cb).tbl
             ELSE tbl,
     skbs |-> kfree_skb(s, Range(b.packets)),
     bypass |-> [b EXCEPT !.opened = FALSE, !.owner = 0,
                          !.expected_type = QM35_TRANSPORT_MSG_MAX,
                          !.listener = FALSE, !.packets = <<>>]]

\* Where a call continues after qm35_bypass_set_expected() returns.
AfterSetExpected(c) ==
    IF c.op = "reset" THEN [c EXCEPT !.pc = "ctl_ops"]
    ELSE [c EXCEPT !.pc = "done"]

\* qm35_bypass_set_expected() as one step, as qm35_bypass_open() runs it
\* under bypass->lock: the table and the channel after the call.
qm35_bypass_set_expected(b, tbl, expected) ==
    IF expected = b.expected_type
    THEN [bypass |-> b, tbl |-> tbl]
    ELSE LET un == IF b.expected_type # QM35_TRANSPORT_MSG_MAX
                   THEN qm35_transport_unregister(tbl, b.expected_type,
                            QM35_TRANSPORT_PRIO_HIGH,
                            qm35_bypass_event_cb).tbl
                   ELSE tbl
         IN [bypass |-> [b EXCEPT !.expected_type = expected],
             tbl |-> qm35_transport_register(un, expected,
                         QM35_TRANSPORT_PRIO_HIGH, qm35_bypass_event_cb,
                         "hnd").tbl]

\* qm35_bypass_open() lines 185-209: under bypass->lock, refuse an opened
\* channel, take the module reference, initialise the handle, install the
\* handler for UCI, then set the owner and opened.  No open is followed
\* once the reference count has dropped below zero, which keeps the count
\* within bounds.
BOpenLock(t) ==
    /\ BCallFree(t)
    /\ module_refs >= 0
    /\ \E g \in Tgids, modget \in BOOLEAN :
           LET c == [BCallIdle EXCEPT !.op = "open", !.tgid = g]
               se == qm35_bypass_set_expected(
                         [bypass EXCEPT
                            !.listener = TRUE, !.packets = <<>>,
                            !.expected_type = QM35_TRANSPORT_MSG_MAX],
                         rx_handlers, QM35_TRANSPORT_MSG_UCI)
           IN IF bypass.opened
              THEN /\ BCommit([bcall EXCEPT ![t] =
                                   [c EXCEPT !.pc = "done", !.rc = -EBUSY]])
                   /\ UNCHANGED <<bypass, module_refs, rx_handlers>>
              ELSE IF ~modget
              THEN /\ BCommit([bcall EXCEPT ![t] =
                                   [c EXCEPT !.pc = "done", !.rc = -ENOENT]])
                   /\ UNCHANGED <<bypass, module_refs, rx_handlers>>
              ELSE /\ BCommit([bcall EXCEPT ![t] =
                                   [c EXCEPT !.pc = "open_start"]])
                   /\ module_refs' = module_refs + 1
                   /\ rx_handlers' = se.tbl
                   /\ bypass' = [se.bypass EXCEPT !.owner = g,
                                                  !.opened = TRUE]
    /\ UNCHANGED <<skbs, ev_skb, listener_oops, lastOp, ev, ts>>
    /\ UNCHANGED <<hsspiVars, threadVars, orchVars, coreVars>>

\* qm35_bypass_set_expected() called by qm35_bypass_control(), outside the
\* locks.  Lines 95-102: nothing to do for the type
\* already expected; else the handler of the previous type is removed.
BSeBegin(t) ==
    /\ bcall[t].pc = "se_begin"
    /\ IF bcall[t].arg = bypass.expected_type
       THEN /\ BCommit([bcall EXCEPT ![t] = AfterSetExpected(@)])
            /\ UNCHANGED rx_handlers
       ELSE /\ BCommit([bcall EXCEPT ![t].pc = "se_reg"])
            /\ rx_handlers' =
                   IF bypass.expected_type # QM35_TRANSPORT_MSG_MAX
                   THEN qm35_transport_unregister(rx_handlers,
                            bypass.expected_type, QM35_TRANSPORT_PRIO_HIGH,
                            qm35_bypass_event_cb).tbl
                   ELSE rx_handlers
    /\ UNCHANGED <<bypass, skbs, module_refs, ev_skb, listener_oops,
                   lastOp, ev, ts>>
    /\ UNCHANGED <<hsspiVars, threadVars, orchVars, coreVars>>

\* Lines 103-105: the handler is installed for the new type.
BSeReg(t) ==
    /\ bcall[t].pc = "se_reg"
    /\ rx_handlers' = qm35_transport_register(rx_handlers, bcall[t].arg,
                          QM35_TRANSPORT_PRIO_HIGH, qm35_bypass_event_cb,
                          "hnd").tbl
    /\ BCommit([bcall EXCEPT ![t].pc = "se_save"])
    /\ UNCHANGED <<bypass, skbs, module_refs, ev_skb, listener_oops,
                   lastOp, ev, ts>>
    /\ UNCHANGED <<hsspiVars, threadVars, orchVars, coreVars>>

\* Line 106: hnd->expected_type = expected.
BSeSave(t) ==
    /\ bcall[t].pc = "se_save"
    /\ bypass' = [bypass EXCEPT !.expected_type = bcall[t].arg]
    /\ BCommit([bcall EXCEPT ![t] = AfterSetExpected(@)])
    /\ UNCHANGED <<skbs, module_refs, ev_skb, listener_oops, rx_handlers,
                   lastOp, ev, ts>>
    /\ UNCHANGED <<hsspiVars, threadVars, orchVars, coreVars>>

\* Lines 212-213: qm35_transport_start(); the open has succeeded when it
\* returns 0.
BOpenStart(t) ==
    /\ bcall[t].pc = "open_start"
    /\ \E r \in BOpsResults :
           /\ BCommit([bcall EXCEPT ![t] =
                            [@ EXCEPT !.rc = r,
                                      !.pc = IF r < 0 THEN "open_rollback"
                                             ELSE "done"]])
           /\ bypass' = [bypass EXCEPT
                           !.opens = IF r < 0 \/ bcall[t].closed THEN @
                                     ELSE @ + 1]
    /\ UNCHANGED <<skbs, module_refs, ev_skb, listener_oops, rx_handlers,
                   lastOp, ev, ts>>
    /\ UNCHANGED <<hsspiVars, threadVars, orchVars, coreVars>>

\* Lines 214-218: rollback with qm35_bypass_cleanup() under bypass->lock.
BOpenRollback(t) ==
    /\ bcall[t].pc = "open_rollback"
    /\ LET r == qm35_bypass_cleanup(bypass, rx_handlers, skbs)
       IN /\ bypass' = r.bypass
          /\ rx_handlers' = r.tbl
          /\ skbs' = r.skbs
    /\ module_refs' = module_refs - 1
    /\ BCommit([bcall EXCEPT ![t].pc = "done"])
    /\ UNCHANGED <<ev_skb, listener_oops, lastOp, ev, ts>>
    /\ UNCHANGED <<hsspiVars, threadVars, orchVars, coreVars>>

\* qm35_bypass_close() lines 282-294: check and cleanup under bypass->lock.
\* Frames left in the queue are logged and rc is set back to 0.
BClose(t) ==
    /\ BCallFree(t)
    /\ \E g \in Tgids :
           LET c == [BCallIdle EXCEPT !.op = "close", !.tgid = g]
               rc == qm35_bypass_check(bypass, g)
               r == qm35_bypass_cleanup(bypass, rx_handlers, skbs)
           IN IF rc # 0
              THEN /\ BCommit([bcall EXCEPT ![t] =
                                   [c EXCEPT !.pc = "done", !.rc = rc]])
                   /\ UNCHANGED <<bypass, rx_handlers, skbs, module_refs>>
              ELSE /\ BCommit([u \in DOMAIN bcall |->
                                IF u = t
                                THEN [c EXCEPT !.pc = "close_stop", !.rc = 0]
                                ELSE IF bcall[u].op = "open"
                                THEN [bcall[u] EXCEPT !.closed = TRUE]
                                ELSE bcall[u]])
                   /\ bypass' = [r.bypass EXCEPT !.opens = 0]
                   /\ rx_handlers' = r.tbl
                   /\ skbs' = r.skbs
                   /\ module_refs' = module_refs - 1
    /\ UNCHANGED <<ev_skb, listener_oops, lastOp, ev, ts>>
    /\ UNCHANGED <<hsspiVars, threadVars, orchVars, coreVars>>

\* Lines 296-298: qm35_transport_stop() after a successful close.
BCloseStop(t) ==
    /\ bcall[t].pc = "close_stop"
    /\ BCommit([bcall EXCEPT ![t].pc = "done"])
    /\ UNCHANGED <<bypass, skbs, module_refs, ev_skb, listener_oops,
                   rx_handlers, lastOp, ev, ts>>
    /\ UNCHANGED <<hsspiVars, threadVars, orchVars, coreVars>>

\* qm35_bypass_control() lines 343-366: the check under bypass->lock, then
\* the branch on the action.  MSG_TYPE returns the type expected so far.
BControlCheck(t) ==
    /\ BCallFree(t)
    /\ \E g \in Tgids, action \in BControlActions, param \in BypassTypes :
           LET c == [BCallIdle EXCEPT !.op = action, !.tgid = g]
               rc == qm35_bypass_check(bypass, g)
           IN /\ action # "msgtype" => param = QM35_TRANSPORT_MSG_UCI
              /\ BCommit([bcall EXCEPT ![t] =
                    IF rc # 0
                    THEN [c EXCEPT !.pc = "done", !.rc = rc]
                    ELSE IF action = "reset"
                    THEN [c EXCEPT !.pc = "se_begin",
                                   !.arg = QM35_TRANSPORT_MSG_UCI]
                    ELSE IF action = "msgtype"
                    THEN [c EXCEPT !.pc = "se_begin", !.arg = param,
                                   !.rc = bypass.expected_type]
                    ELSE [c EXCEPT !.pc = "ctl_ops"]])
    /\ UNCHANGED <<bypass, skbs, module_refs, ev_skb, listener_oops,
                   rx_handlers, lastOp, ev, ts>>
    /\ UNCHANGED <<hsspiVars, threadVars, orchVars, coreVars>>

\* Lines 369-381: qm35_transport_reset(), _fw_update() or _power().
BControlOps(t) ==
    /\ bcall[t].pc = "ctl_ops"
    /\ \E r \in BOpsResults :
           BCommit([bcall EXCEPT ![t] =
                        [@ EXCEPT !.pc = "done", !.rc = r]])
    /\ UNCHANGED <<bypass, skbs, module_refs, ev_skb, listener_oops,
                   rx_handlers, lastOp, ev, ts>>
    /\ UNCHANGED <<hsspiVars, threadVars, orchVars, coreVars>>

\* qm35_bypass_send() lines 418-427: a send of no byte is refused with
\* -EINVAL; then the check under bypass->lock.
BSendCheck(t) ==
    /\ BCallFree(t)
    /\ \E g \in Tgids, len \in 0 .. 1 :
           LET c == [BCallIdle EXCEPT !.op = "send", !.tgid = g]
               rc == qm35_bypass_check(bypass, g)
           IN BCommit([bcall EXCEPT ![t] =
                 IF len = 0 THEN [c EXCEPT !.pc = "done", !.rc = -EINVAL]
                 ELSE IF rc # 0 THEN [c EXCEPT !.pc = "done", !.rc = rc]
                 ELSE [c EXCEPT !.pc = "send_ops"]])
    /\ UNCHANGED <<bypass, skbs, module_refs, ev_skb, listener_oops,
                   rx_handlers, lastOp, ev, ts>>
    /\ UNCHANGED <<hsspiVars, threadVars, orchVars, coreVars>>

\* Line 430: qm35_transport_send_direct().
BSendOps(t) ==
    /\ bcall[t].pc = "send_ops"
    /\ \E r \in BOpsResults :
           BCommit([bcall EXCEPT ![t] =
                        [@ EXCEPT !.pc = "done", !.rc = r]])
    /\ UNCHANGED <<bypass, skbs, module_refs, ev_skb, listener_oops,
                   rx_handlers, lastOp, ev, ts>>
    /\ UNCHANGED <<hsspiVars, threadVars, orchVars, coreVars>>

\* qm35_bypass_recv() lines 475-480: the check under bypass->lock.
BRecvCheck(t) ==
    /\ BCallFree(t)
    /\ \E g \in Tgids, len \in 1 .. MaxLen :
           LET c == [BCallIdle EXCEPT !.op = "recv", !.tgid = g, !.len = len]
               rc == qm35_bypass_check(bypass, g)
           IN BCommit([bcall EXCEPT ![t] =
                 IF rc # 0 THEN [c EXCEPT !.pc = "done", !.rc = rc]
                 ELSE [c EXCEPT !.pc = "recv_take"]])
    /\ UNCHANGED <<bypass, skbs, module_refs, ev_skb, listener_oops,
                   rx_handlers, lastOp, ev, ts>>
    /\ UNCHANGED <<hsspiVars, threadVars, orchVars, coreVars>>

\* The length qm35_bypass_recv() copies: len capped to skb->len (line 503).
qm35_bypass_recv_len(len, skblen) ==
    IF len > skblen THEN skblen ELSE len

\* Lines 482-511, under hnd->lock: -EAGAIN on an empty list; else the first
\* packet is taken, and unlinked when the buffer holds all of it.
BRecvTake(t) ==
    /\ bcall[t].pc = "recv_take"
    /\ IF bypass.packets = <<>>
       THEN /\ BCommit([bcall EXCEPT ![t].pc = "done", ![t].rc = -EAGAIN])
            /\ UNCHANGED bypass
       ELSE LET skb == Head(bypass.packets)
                len == qm35_bypass_recv_len(bcall[t].len, skbs[skb].len)
            IN IF len < 0
               THEN /\ BCommit([bcall EXCEPT ![t].pc = "done",
                                              ![t].rc = len])
                    /\ UNCHANGED bypass
               ELSE /\ BCommit([bcall EXCEPT ![t].pc = "recv_copy",
                                              ![t].skb = skb, ![t].len = len])
                    /\ bypass' = IF len = skbs[skb].len
                                 THEN [bypass EXCEPT !.packets = Tail(@)]
                                 ELSE bypass
    /\ UNCHANGED <<skbs, module_refs, ev_skb, listener_oops, rx_handlers,
                   lastOp, ev, ts>>
    /\ UNCHANGED <<hsspiVars, threadVars, orchVars, coreVars>>

\* Lines 516-525, outside the locks: copy_to_user(), skb_pull(), and the
\* packet freed once it is empty.  skb_pull() of more than is left changes
\* nothing.
BRecvCopy(t) ==
    /\ bcall[t].pc = "recv_copy"
    /\ \E fault \in BOOLEAN :
           IF fault
           THEN /\ BCommit([bcall EXCEPT ![t].pc = "done",
                                          ![t].rc = -EFAULT])
                /\ UNCHANGED skbs
           ELSE LET skb == bcall[t].skb
                    left == IF bcall[t].len > skbs[skb].len
                            THEN skbs[skb].len
                            ELSE skbs[skb].len - bcall[t].len
                IN /\ BCommit([bcall EXCEPT ![t].pc = "done",
                                             ![t].rc = bcall[t].len])
                   /\ skbs' = [skbs EXCEPT ![skb] =
                                  [len |-> left,
                                   freed |-> IF left = 0 THEN @.freed + 1
                                             ELSE @.freed]]
    /\ UNCHANGED <<bypass, module_refs, ev_skb, listener_oops, rx_handlers,
                   lastOp, ev, ts>>
    /\ UNCHANGED <<hsspiVars, threadVars, orchVars, coreVars>>

\* Frame slots not allocated so far.
FreeSkbs == {i \in 1 .. MaxFrames : skbs[i] = SkbNone}

\* qm35_transport_event() lines 269-284 with a frame of the device: the skb
\* is allocated and filled by transport_ops->recv().
BEventRecv ==
    /\ ev.pc \in {"idle", "done"}
    /\ FreeSkbs # {}
    /\ \E type \in BypassTypes, len \in 1 .. MaxLen :
           LET id == CHOOSE i \in FreeSkbs : \A j \in FreeSkbs : i <= j
           IN /\ ev' = qm35_transport_event_recv(len, type)
              /\ skbs' = [skbs EXCEPT ![id].len = len]
              /\ ev_skb' = id
    /\ UNCHANGED <<bypass, bcall, bret, module_refs, listener_oops, rx_handlers,
                   lastOp, ts>>
    /\ UNCHANGED <<hsspiVars, threadVars, orchVars, coreVars>>

\* Lines 286-290: the lookup; a frame without handler is freed.
BEventLookup ==
    /\ ev.pc = "recvd"
    /\ ev_skb # 0
    /\ ev' = qm35_transport_event_lookup(ev, rx_handlers)
    /\ IF ev'.pc = "done"
       THEN /\ skbs' = kfree_skb(skbs, {ev_skb})
            /\ ev_skb' = 0
       ELSE UNCHANGED <<skbs, ev_skb>>
    /\ UNCHANGED <<bypass, bcall, bret, module_refs, listener_oops, rx_handlers,
                   lastOp, ts>>
    /\ UNCHANGED <<hsspiVars, threadVars, orchVars, coreVars>>

\* Line 292 with qm35_bypass_event_cb() (lines 58-78): a frame of another
\* type than the expected one is freed; else it is queued under hnd->lock
\* and the listener is called.  The Normal consumer consumes its frame.
BEventCall ==
    /\ ev.pc = "found"
    /\ ev_skb # 0
    /\ ev' = qm35_transport_event_call(ev, rx_handlers)
    /\ IF ev.handler.cb # qm35_bypass_event_cb
       THEN /\ skbs' = kfree_skb(skbs, {ev_skb})
            /\ UNCHANGED <<bypass, listener_oops>>
       ELSE IF ev.type # bypass.expected_type
       THEN /\ skbs' = kfree_skb(skbs, {ev_skb})
            /\ UNCHANGED <<bypass, listener_oops>>
       ELSE /\ bypass' = [bypass EXCEPT !.packets = Append(@, ev_skb)]
            /\ listener_oops' = (listener_oops \/ ~bypass.listener)
            /\ UNCHANGED skbs
    /\ ev_skb' = 0
    /\ UNCHANGED <<bcall, bret, module_refs, rx_handlers, lastOp, ts>>
    /\ UNCHANGED <<hsspiVars, threadVars, orchVars, coreVars>>

\* The bypass operations of every thread on a channel that receives no
\* frame.
BypassOpsNext ==
    \/ \E t \in BThreads : BOpenLock(t)
    \/ \E t \in BThreads : BSeBegin(t)
    \/ \E t \in BThreads : BSeReg(t)
    \/ \E t \in BThreads : BSeSave(t)
    \/ \E t \in BThreads : BOpenStart(t)
    \/ \E t \in BThreads : BOpenRollback(t)
    \/ \E t \in BThreads : BClose(t)
    \/ \E t \in BThreads : BCloseStop(t)
    \/ \E t \in BThreads : BControlCheck(t)
    \/ \E t \in BThreads : BControlOps(t)
    \/ \E t \in BThreads : BSendCheck(t)
    \/ \E t \in BThreads : BSendOps(t)
    \/ \E t \in BThreads : BRecvCheck(t)
    \/ \E t \in BThreads : BRecvTake(t)

\* The bypass operations and the frames of the device.
BypassNext ==
    \/ \E t \in BThreads : BOpenLock(t)
    \/ \E t \in BThreads : BSeBegin(t)
    \/ \E t \in BThreads : BSeReg(t)
    \/ \E t \in BThreads : BSeSave(t)
    \/ \E t \in BThreads : BOpenStart(t)
    \/ \E t \in BThreads : BOpenRollback(t)
    \/ \E t \in BThreads : BClose(t)
    \/ \E t \in BThreads : BCloseStop(t)
    \/ \E t \in BThreads : BControlCheck(t)
    \/ \E t \in BThreads : BControlOps(t)
    \/ \E t \in BThreads : BSendCheck(t)
    \/ \E t \in BThreads : BSendOps(t)
    \/ \E t \in BThreads : BRecvCheck(t)
    \/ \E t \in BThreads : BRecvTake(t)
    \/ \E t \in BThreads : BRecvCopy(t)
    \/ BEventRecv
    \/ BEventLookup
    \/ BEventCall

(***************************************************************************)
(* Worker thread (spi/qm/qm35_spi_thread.c) with its callers: threads that *)
(* send through the shared descriptor qmspi->work_send, threads that reset *)
(* the device (qm35_spi_reset_wait_ready, with its own descriptor on the   *)
(* stack) and the interrupt line.  A work function and the interrupt       *)
(* service routine are each one bus exchange, which begins and ends in     *)
(* separate steps so that overlapping exchanges are visible.               *)
(***************************************************************************)
\* Number of caller threads.
NumCallers == 2
\* Number of qm35_enqueue calls that pass the exclusion lock.
MaxTickets == 3

\* The NULL pointer among descriptors and thread identifiers.
NIL == -1

Callers == 1 .. NumCallers
Worker == 0

\* Pending work bits.
QM35_GENERIC_WORK == "GENERIC"
QM35_IRQ_WORK == "IRQ"

\* Work descriptors: 0 is qmspi->work_send, c > 0 the descriptor on the
\* stack of caller c (struct qm35_work work in qm35_spi_reset_wait_ready).
WorkSend == 0
StackWork(c) == c
\* qmspi->work_recv, the descriptor of the receive.
WorkRecv == -2

\* Results of a work function.
WorkResults == {0, -EAGAIN}

\* cancelled: the call of qm35_enqueue in progress took the branch of lines
\* 100-104 (signal during the wait).
CallerIdle ==
    [pc |-> "idle", op |-> "none", bootrom |-> FALSE, cancelled |-> FALSE]

\* The worker at the top of its loop; at is the ticket that was queued when
\* the work function was entered.
\* params is the caller whose parameters the work function transmits (the
\* in pointer of work_send is &qmspi->send_params).
WkStart ==
    [pc |-> "get", cmd |-> NIL, tk |-> 0, ret |-> 0, at |-> 0, params |-> 0]

\* The descriptor a caller passes to qm35_enqueue.
CmdOf(c) == IF callers[c].op = "reset" THEN StackWork(c) ELSE WorkSend

\* The descriptor on a caller's stack exists while the caller is in reset.
StackLive(d) ==
    IF d = WorkSend THEN TRUE ELSE callers[d].op = "reset"

\* Calling through the descriptor is invalid: NULL or a dead stack frame.
BadCmd(d) == IF d = NIL THEN TRUE ELSE ~StackLive(d)

DescRet(d) == IF d = WorkSend THEN work_send_ret ELSE stack_ret[d]

\* cmd->ret = r
SetDescRet(d, r) ==
    /\ work_send_ret' = IF d = WorkSend THEN r ELSE work_send_ret
    /\ stack_ret' = IF d = WorkSend THEN stack_ret
                    ELSE [stack_ret EXCEPT ![d] = r]

\* mutex_lock_interruptible(&wk->mtx) succeeds only on a free mutex.
MutexFree_no_exclusion(m) == TRUE

MutexFree(m) == m = NIL

\* The thread that issues the chip-select exchanges of a reset to bootrom:
\* qm35_spi_set_cs_level() is called by qm35_spi_reset_wait_ready() itself.
CsIssuer(c) == c

(***************************************************************************)
(* Caller threads.                                                         *)
(***************************************************************************)
\* A thread starts qm35_spi_send (lines 566-567): its parameters are copied
\* to qmspi->send_params without any lock, and it will enqueue
\* qmspi->work_send.
StartSend(c) ==
    /\ UNCHANGED should_read
    /\ callers[c].pc = "idle"
    /\ nextTicket + Cardinality({d \in Callers : callers[d].pc = "lock"})
           <= MaxTickets
    /\ callers' = [callers EXCEPT ![c] =
                      [CallerIdle EXCEPT !.pc = "lock", !.op = "send"]]
    /\ send_params' = c
    /\ UNCHANGED <<pending_work, work, workTk, mtx, irqDepth, should_stop, wk,
                   stack_ret, bus, work_counter, lastExecTk, lastComplTk,
                   nextTicket, work_send_ret>>
    /\ UNCHANGED <<dispatchVars, hsspiRest, orchVars, bypassVars, notParam>>

\* qm35_spi_reset_wait_ready() line 225: disable_irq().
ResetStart(c) ==
    /\ UNCHANGED should_read
    /\ callers[c].pc = "idle"
    /\ \E bootrom \in BOOLEAN :
           /\ ~bootrom =>
                  nextTicket + Cardinality({d \in Callers :
                      callers[d].pc = "lock"}) <= MaxTickets
           /\ callers' = [callers EXCEPT ![c] =
                  [CallerIdle EXCEPT !.op = "reset", !.bootrom = bootrom,
                       !.pc = IF bootrom THEN "cs_low" ELSE "pulse"]]
    /\ irqDepth' = irqDepth + 1
    /\ stack_ret' = [stack_ret EXCEPT ![c] = 0]
    /\ UNCHANGED <<pending_work, work, workTk, mtx, should_stop, wk, bus,
                   work_counter, lastExecTk, lastComplTk, nextTicket,
                   work_send_ret>>
    /\ UNCHANGED <<dispatchVars, hsspiRest, orchVars, bypassVars, coreVars>>

\* qm35_spi_set_cs_level(): spi_sync_transfer() begins.
CsBegin(c) ==
    /\ UNCHANGED should_read
    /\ callers[c].pc \in {"cs_low", "cs_high"}
    /\ bus' = bus \cup {CsIssuer(c)}
    /\ callers' = [callers EXCEPT ![c].pc =
                      IF @ = "cs_low" THEN "cs_low_x" ELSE "cs_high_x"]
    /\ UNCHANGED <<pending_work, work, workTk, mtx, irqDepth, should_stop, wk,
                   stack_ret, work_counter, lastExecTk, lastComplTk, nextTicket,
                   work_send_ret>>
    /\ UNCHANGED <<dispatchVars, hsspiRest, orchVars, bypassVars, coreVars>>

\* qm35_spi_set_cs_level(): spi_sync_transfer() returns.
CsEnd(c) ==
    /\ UNCHANGED should_read
    /\ callers[c].pc \in {"cs_low_x", "cs_high_x"}
    /\ bus' = bus \ {CsIssuer(c)}
    /\ callers' = [callers EXCEPT ![c].pc =
                      IF @ = "cs_low_x" THEN "pulse" ELSE "enable"]
    /\ UNCHANGED <<pending_work, work, workTk, mtx, irqDepth, should_stop, wk,
                   stack_ret, work_counter, lastExecTk, lastComplTk, nextTicket,
                   work_send_ret>>
    /\ UNCHANGED <<dispatchVars, hsspiRest, orchVars, bypassVars, coreVars>>

\* Lines 244-260 as called by qm35_spi_reset() (wait = !bootrom): after the
\* backoff the chip select is released (bootrom) or the ready wait is
\* enqueued.
qm35_spi_reset_after_backoff_no_release(bootrom) ==
    IF bootrom THEN "enable" ELSE "lock"

qm35_spi_reset_after_backoff(bootrom) ==
    IF bootrom THEN "cs_high" ELSE "lock"

\* Lines 236-243: the reset GPIO pulse and the backoff.
ResetPulse(c) ==
    /\ UNCHANGED should_read
    /\ callers[c].pc = "pulse"
    /\ callers' = [callers EXCEPT ![c].pc =
                      qm35_spi_reset_after_backoff(callers[c].bootrom)]
    /\ UNCHANGED <<pending_work, work, workTk, mtx, irqDepth, should_stop, wk,
                   stack_ret, bus, work_counter, lastExecTk, lastComplTk,
                   nextTicket, work_send_ret>>
    /\ UNCHANGED <<dispatchVars, hsspiRest, orchVars, bypassVars, coreVars>>

\* Line 261: enable_irq(), and return: the stack descriptor is gone.
ResetEnable(c) ==
    /\ UNCHANGED should_read
    /\ callers[c].pc = "enable"
    /\ irqDepth' = irqDepth - 1
    /\ callers' = [callers EXCEPT ![c] = CallerIdle]
    /\ stack_ret' = [stack_ret EXCEPT ![c] = 0]
    /\ UNCHANGED <<pending_work, work, workTk, mtx, should_stop, wk,
                   bus, work_counter, lastExecTk, lastComplTk,
                   nextTicket, work_send_ret>>
    /\ UNCHANGED <<dispatchVars, hsspiRest, orchVars, bypassVars, coreVars>>

\* qm35_enqueue() lines 85-95: take the mutex, queue the descriptor.
EnqLock(c) ==
    /\ UNCHANGED should_read
    /\ callers[c].pc = "lock"
    /\ MutexFree(mtx)
    /\ mtx' = c
    /\ pending_work' = pending_work \cup {QM35_GENERIC_WORK}
    /\ work' = CmdOf(c)
    /\ workTk' = nextTicket
    /\ nextTicket' = nextTicket + 1
    /\ callers' = [callers EXCEPT ![c].pc = "wait"]
    /\ UNCHANGED <<irqDepth, should_stop, wk, stack_ret, bus, work_counter,
                   lastExecTk, lastComplTk, work_send_ret>>
    /\ UNCHANGED <<dispatchVars, hsspiRest, orchVars, bypassVars, coreVars>>

\* Lines 85-90: a signal while blocked on the mutex.
EnqLockIntr(c) ==
    /\ UNCHANGED should_read
    /\ callers[c].pc = "lock"
    /\ ~MutexFree(mtx)
    /\ SetDescRet(CmdOf(c), -EINTR)
    /\ callers' = [callers EXCEPT ![c].pc = "ret"]
    /\ UNCHANGED <<pending_work, work, workTk, mtx, irqDepth, should_stop, wk,
                   bus, work_counter, lastExecTk, lastComplTk, nextTicket>>
    /\ UNCHANGED <<dispatchVars, hsspiRest, orchVars, bypassVars, coreVars>>

\* Lines 96-105: woken with the Generic bit cleared.
EnqWake(c) ==
    /\ UNCHANGED should_read
    /\ callers[c].pc = "wait"
    /\ QM35_GENERIC_WORK \notin pending_work
    /\ mtx' = IF mtx = c THEN NIL ELSE mtx
    /\ callers' = [callers EXCEPT ![c].pc = "ret"]
    /\ UNCHANGED <<pending_work, work, workTk, irqDepth, should_stop, wk,
                   stack_ret, bus, work_counter, lastExecTk, lastComplTk,
                   nextTicket, work_send_ret>>
    /\ UNCHANGED <<dispatchVars, hsspiRest, orchVars, bypassVars, coreVars>>

\* Lines 96-105: a signal while the Generic bit is still set.
EnqCancel(c) ==
    /\ UNCHANGED should_read
    /\ callers[c].pc = "wait"
    /\ QM35_GENERIC_WORK \in pending_work
    /\ pending_work' = pending_work \ {QM35_GENERIC_WORK}
    /\ work' = NIL
    /\ workTk' = 0
    /\ SetDescRet(CmdOf(c), -EINTR)
    /\ mtx' = IF mtx = c THEN NIL ELSE mtx
    /\ callers' = [callers EXCEPT ![c].pc = "ret", ![c].cancelled = TRUE]
    /\ UNCHANGED <<irqDepth, should_stop, wk, bus, work_counter, lastExecTk,
                   lastComplTk, nextTicket>>
    /\ UNCHANGED <<dispatchVars, hsspiRest, orchVars, bypassVars, coreVars>>

\* Lines 106-108: return cmd->ret, the value DescRet(CmdOf(c)) has now.
EnqReturn(c) ==
    /\ UNCHANGED should_read
    /\ callers[c].pc = "ret"
    /\ callers' = [callers EXCEPT ![c] =
           IF callers[c].op = "reset"
           THEN [@ EXCEPT !.pc = "enable", !.cancelled = FALSE]
           ELSE CallerIdle]
    /\ UNCHANGED <<pending_work, work, workTk, mtx, irqDepth, should_stop, wk,
                   stack_ret, bus, work_counter, lastExecTk, lastComplTk,
                   nextTicket, work_send_ret>>
    /\ UNCHANGED <<dispatchVars, hsspiRest, orchVars, bypassVars, coreVars>>

(***************************************************************************)
(* Interrupt line and shutdown.                                            *)
(***************************************************************************)
\* qm35_enqueue_irq(): set the IRQ bit and disable the line
\* (disable_irq_nosync) unless the bit is set already.
qm35_enqueue_irq_always_disable(pending, depth) ==
    [pending |-> pending \cup {QM35_IRQ_WORK}, depth |-> depth + 1]

qm35_enqueue_irq(pending, depth) ==
    IF QM35_IRQ_WORK \notin pending
    THEN [pending |-> pending \cup {QM35_IRQ_WORK}, depth |-> depth + 1]
    ELSE [pending |-> pending, depth |-> depth]

\* qm35_irq_handler() and qm35_enqueue_irq(), delivered while enabled.
IrqHandler ==
    /\ irqDepth = 0
    /\ should_read' = TRUE
    /\ pending_work' = qm35_enqueue_irq(pending_work, irqDepth).pending
    /\ irqDepth' = qm35_enqueue_irq(pending_work, irqDepth).depth
    /\ UNCHANGED <<work, workTk, mtx, should_stop, wk, callers, stack_ret,
                   bus, work_counter, lastExecTk, lastComplTk, nextTicket,
                   work_send_ret>>
    /\ UNCHANGED <<dispatchVars, hsspiRest, orchVars, bypassVars, coreVars>>

\* qm35_thread_stop(): kthread_stop().
ThreadStop ==
    /\ ~should_stop
    /\ should_stop' = TRUE
    /\ UNCHANGED <<pending_work, work, workTk, mtx, irqDepth, wk, callers,
                   stack_ret, bus, work_counter, lastExecTk, lastComplTk,
                   nextTicket, work_send_ret, should_read>>
    /\ UNCHANGED <<dispatchVars, hsspiRest, orchVars, bypassVars, coreVars>>

(***************************************************************************)
(* The worker loop qm35_spi_thread().                                      *)
(***************************************************************************)
WorkerUnchanged ==
    UNCHANGED <<mtx, should_stop, callers, nextTicket, should_read>>

\* Lines 230-249: the branch taken on the copy of the pending bits: the
\* interrupt first, else the Generic item, else the wait.
qm35_spi_thread_branch_generic_first(pending) ==
    IF QM35_GENERIC_WORK \in pending THEN "read_work"
    ELSE IF QM35_IRQ_WORK \in pending THEN "isr"
    ELSE "wait"

qm35_spi_thread_branch(pending) ==
    IF QM35_IRQ_WORK \in pending THEN "isr"
    ELSE IF QM35_GENERIC_WORK \in pending THEN "read_work"
    ELSE "wait"

\* Lines 226-248: loop test, qm35_get_pending_work() and the branch taken on
\* the local copy of the bits (the wait at line 246 is reached only when the
\* copy is empty).
WorkerGet ==
    /\ wk.pc = "get"
    /\ wk' = IF should_stop THEN [wk EXCEPT !.pc = "exited"]
             ELSE [wk EXCEPT !.pc = qm35_spi_thread_branch(pending_work)]
    /\ WorkerUnchanged
    /\ UNCHANGED <<pending_work, work, workTk, irqDepth, stack_ret, bus,
                   work_counter, lastExecTk, lastComplTk, work_send_ret>>
    /\ UNCHANGED <<dispatchVars, hsspiRest, orchVars, bypassVars, coreVars>>

\* qm35_wait_pending_work(): sleep until work is pending or stop is asked.
WorkerWait ==
    /\ wk.pc = "wait"
    /\ pending_work # {} \/ should_stop
    /\ wk' = [wk EXCEPT !.pc = "get"]
    /\ WorkerUnchanged
    /\ UNCHANGED <<pending_work, work, workTk, irqDepth, stack_ret, bus,
                   work_counter, lastExecTk, lastComplTk, work_send_ret>>
    /\ UNCHANGED <<dispatchVars, hsspiRest, orchVars, bypassVars, coreVars>>

\* qm35_enqueue() lines 76-84: a call made by the worker thread itself
\* executes the item at once, any other thread goes on to the mutex.
qm35_enqueue_entry_always_queue(thread) == "lock"

qm35_enqueue_entry(thread) ==
    IF thread = Worker THEN "inline" ELSE "lock"

\* qm35_spi_isr(): qm35_transport_event() calls qm35_spi_recv(), which
\* passes qmspi->work_recv to qm35_enqueue() on the worker itself: the
\* receive runs inline and starts its bus exchange.  On the path through
\* the mutex the worker would queue the item and wait for itself.
WorkerIsrBegin ==
    /\ wk.pc = "isr"
    /\ IF qm35_enqueue_entry(Worker) = "inline"
       THEN /\ bus' = bus \cup {Worker}
            /\ wk' = [wk EXCEPT !.pc = "isr_x"]
            /\ UNCHANGED <<mtx, pending_work, work, workTk>>
       ELSE /\ wk' = [wk EXCEPT !.pc = "isr_blocked"]
            /\ IF MutexFree(mtx)
               THEN /\ mtx' = Worker
                    /\ pending_work' = pending_work \cup {QM35_GENERIC_WORK}
                    /\ work' = WorkRecv
                    /\ workTk' = 0
               ELSE UNCHANGED <<mtx, pending_work, work, workTk>>
            /\ UNCHANGED bus
    /\ UNCHANGED <<should_stop, callers, nextTicket, should_read>>
    /\ UNCHANGED <<irqDepth, stack_ret, work_counter, lastExecTk,
                   lastComplTk, work_send_ret>>
    /\ UNCHANGED <<dispatchVars, hsspiRest, orchVars, bypassVars, coreVars>>

\* qm35_enqueue() lines 80-81 and 106-108: the work function returns, its
\* result is stored in the descriptor (qmspi->work_recv.ret) and returned;
\* qm35_spi_isr(): the frame is dispatched.
WorkerIsrEnd ==
    /\ wk.pc = "isr_x"
    /\ bus' = bus \ {Worker}
    /\ \E r \in WorkResults : wk' = [wk EXCEPT !.pc = "clear_irq", !.ret = r]
    /\ WorkerUnchanged
    /\ UNCHANGED <<pending_work, work, workTk, irqDepth, stack_ret,
                   work_counter, lastExecTk, lastComplTk, work_send_ret>>
    /\ UNCHANGED <<dispatchVars, hsspiRest, orchVars, bypassVars, coreVars>>

\* qm35_clear_irq().
WorkerClearIrq ==
    /\ wk.pc = "clear_irq"
    /\ pending_work' = pending_work \ {QM35_IRQ_WORK}
    /\ irqDepth' = irqDepth - 1
    /\ wk' = [wk EXCEPT !.pc = "get", !.ret = 0]
    /\ WorkerUnchanged
    /\ UNCHANGED <<work, workTk, stack_ret, bus, work_counter, lastExecTk,
                   lastComplTk, work_send_ret>>
    /\ UNCHANGED <<dispatchVars, hsspiRest, orchVars, bypassVars, coreVars>>

\* Line 238: cmd = wk->work, read without the wait-queue lock.
WorkerReadWork ==
    /\ wk.pc = "read_work"
    /\ wk' = [wk EXCEPT !.pc = "call", !.cmd = work, !.tk = workTk]
    /\ WorkerUnchanged
    /\ UNCHANGED <<pending_work, work, workTk, irqDepth, stack_ret, bus,
                   work_counter, lastExecTk, lastComplTk, work_send_ret>>
    /\ UNCHANGED <<dispatchVars, hsspiRest, orchVars, bypassVars, coreVars>>

\* qm35_spi_transport_setup() lines 776-781 and qm35_send_work() lines
\* 509-511: the send work reads its parameters through work_send.in, which
\* points to qmspi->send_params; the ready wait of a reset has none.
qm35_send_work_params(cmd, params) ==
    IF cmd = WorkSend THEN params ELSE 0

\* Line 241: cmd->cmd(qmspi, cmd->in, cmd->out) is entered.  A NULL cmd is
\* a NULL dereference; a descriptor on the stack of a caller that has
\* returned is a dangling reference, which may crash or run the function.
WorkerCall ==
    /\ wk.pc = "call"
    /\ \/ /\ BadCmd(wk.cmd)
          /\ wk' = [wk EXCEPT !.pc = "crashed"]
          /\ UNCHANGED <<bus, work_counter, lastExecTk>>
       \/ /\ wk.cmd # NIL
          /\ bus' = bus \cup {Worker}
          /\ work_counter' = work_counter + 1
          /\ lastExecTk' = wk.tk
          /\ wk' = [wk EXCEPT !.pc = "exec", !.at = workTk,
                              !.params = qm35_send_work_params(wk.cmd,
                                                               send_params)]
    /\ WorkerUnchanged
    /\ UNCHANGED <<pending_work, work, workTk, irqDepth, stack_ret, lastComplTk,
                   work_send_ret>>
    /\ UNCHANGED <<dispatchVars, hsspiRest, orchVars, bypassVars, coreVars>>

\* Line 241: the work function returns.  qm35_send_work() reads
\* qmspi->send_params while it runs, unsynchronised with a qm35_spi_send()
\* that writes it: what was transmitted is what the structure held when the
\* function was entered or what it holds now.
WorkerExecEnd ==
    /\ wk.pc = "exec"
    /\ bus' = bus \ {Worker}
    /\ \E r \in WorkResults,
          p \in {wk.params, qm35_send_work_params(wk.cmd, send_params)} :
           wk' = [wk EXCEPT !.pc = "dequeue", !.ret = r, !.params = p]
    /\ WorkerUnchanged
    /\ UNCHANGED <<pending_work, work, workTk, irqDepth, stack_ret,
                   work_counter, lastExecTk, lastComplTk, work_send_ret>>
    /\ UNCHANGED <<dispatchVars, hsspiRest, orchVars, bypassVars, coreVars>>

\* qm35_dequeue(): complete the item if the descriptor is still queued.
WorkerDequeue ==
    /\ wk.pc = "dequeue"
    /\ IF wk.cmd = work
       THEN /\ SetDescRet(wk.cmd, wk.ret)
            /\ pending_work' = pending_work \ {QM35_GENERIC_WORK}
            /\ lastComplTk' = workTk
       ELSE UNCHANGED <<stack_ret, work_send_ret, pending_work, lastComplTk>>
    /\ wk' = WkStart
    /\ WorkerUnchanged
    /\ UNCHANGED <<work, workTk, irqDepth, bus, work_counter, lastExecTk>>
    /\ UNCHANGED <<dispatchVars, hsspiRest, orchVars, bypassVars, coreVars>>

\* qm35_enqueue() as its caller threads go through it.
EnqueueNext ==
    \/ \E c \in Callers : EnqLock(c)
    \/ \E c \in Callers : EnqLockIntr(c)
    \/ \E c \in Callers : EnqWake(c)
    \/ \E c \in Callers : EnqCancel(c)
    \/ \E c \in Callers : EnqReturn(c)

WorkerNext ==
    \/ IrqHandler
    \/ WorkerGet
    \/ WorkerWait
    \/ WorkerIsrBegin
    \/ WorkerIsrEnd
    \/ WorkerClearIrq
    \/ WorkerReadWork
    \/ WorkerCall
    \/ WorkerExecEnd
    \/ WorkerDequeue

\* Threads that send, the worker, the interrupt line and the shutdown.
ThreadNext ==
    \/ \E c \in Callers : StartSend(c)
    \/ EnqueueNext
    \/ WorkerNext
    \/ ThreadStop

\* Threads that reset the device, the worker and the interrupt line.
ResetNext ==
    \/ \E c \in Callers : ResetStart(c)
    \/ \E c \in Callers : CsBegin(c)
    \/ \E c \in Callers : CsEnd(c)
    \/ \E c \in Callers : ResetPulse(c)
    \/ \E c \in Callers : ResetEnable(c)
    \/ EnqueueNext
    \/ WorkerNext

(***************************************************************************)
(* Device probing (spi/qm/qm35_spi_transport.c qm35_spi_probe with the     *)
(* helpers of spi/qm/qm35_uci_probe.c): a temporary handler in the         *)
(* (UCI, High) slot, the wait for the READY state, one soft reset, the     *)
(* device information command and the removal of the handler.              *)
(***************************************************************************)
\* The callback of the probe and its data pointer (&qmspi->probing_data).
qm35_uci_probe_handle == "qm35_uci_probe_handle"
probing_data == "probing_data"

\* rc of qm35_spi_probe: success, the time-out of the loop, or the negated
\* UCI status of a command (uci_status_to_err).
ProbeOk == "0"
ProbeTimedOut == "-ETIMEDOUT"
UCI_STATUS_OK == "UCI_STATUS_OK"
UCI_STATUS_REJECTED == "UCI_STATUS_REJECTED"
UCI_STATUS_FAILED == "UCI_STATUS_FAILED"
UCI_STATUS_UCI_MESSAGE_RETRY == "UCI_STATUS_UCI_MESSAGE_RETRY"

uci_status_to_err(status) ==
    IF status = UCI_STATUS_OK THEN ProbeOk ELSE "-" \o status

\* qm35_uci_probe_send_cmd(): the status of the response, or
\* UCI_STATUS_UCI_MESSAGE_RETRY when no response came within a second.
UciCmdStatuses ==
    {UCI_STATUS_OK, UCI_STATUS_REJECTED, UCI_STATUS_FAILED,
     UCI_STATUS_UCI_MESSAGE_RETRY}

\* qm35_state_wait(): negative on a signal, 0 on time-out, positive when the
\* state was reached.
StateWaitResults == {-1, 0, 1}

\* setup: result of the registration made by qm35_uci_probe_setup();
\* resets: soft-reset commands sent by the call; path: how the call ended.
ProbeIdle ==
    [pc |-> "idle", soft_reset_sent |-> FALSE, rc |-> ProbeOk, setup |-> 0,
     resets |-> 0, path |-> "none"]

\* Lines 732-737 and 746: the loop test and the exit on the second miss.
qm35_spi_probe_wait_no_limit(p, r) ==
    IF r <= 0 THEN [p EXCEPT !.pc = "reset"] ELSE [p EXCEPT !.pc = "info"]

qm35_spi_probe_wait(p, r) ==
    IF r <= 0
    THEN IF p.soft_reset_sent
         THEN [p EXCEPT !.pc = "cleanup", !.rc = ProbeTimedOut,
                        !.path = "timeout"]
         ELSE [p EXCEPT !.pc = "reset"]
    ELSE [p EXCEPT !.pc = "info"]

\* qm35_uci_probe_device_reset(): a rejected command counts as success.
qm35_uci_probe_device_reset(status) ==
    IF uci_status_to_err(status) = uci_status_to_err(UCI_STATUS_REJECTED)
    THEN ProbeOk
    ELSE uci_status_to_err(status)

\* Lines 740-745: the soft reset; an error leaves the loop.
qm35_spi_probe_reset(p, status) ==
    LET rc == qm35_uci_probe_device_reset(status)
        q == [p EXCEPT !.rc = rc, !.resets = p.resets + 1]
    IN IF rc # ProbeOk
       THEN [q EXCEPT !.pc = "cleanup", !.path = "reset_error"]
       ELSE [q EXCEPT !.pc = "wait", !.soft_reset_sent = TRUE]

\* Lines 747-748: rc = qm35_uci_probe_device_info().
qm35_spi_probe_info(p, status) ==
    [p EXCEPT !.pc = "cleanup", !.rc = uci_status_to_err(status),
              !.path = IF status = UCI_STATUS_OK THEN "success"
                       ELSE "info_error"]

\* Lines 726-729: qm35_uci_probe_setup() registers the handler; the result
\* of qm35_transport_register() is not looked at.
ProbeSetup ==
    /\ probe.pc \in {"idle", "returned"}
    /\ LET r == qm35_transport_register(rx_handlers, QM35_TRANSPORT_MSG_UCI,
                    QM35_TRANSPORT_PRIO_HIGH, qm35_uci_probe_handle,
                    probing_data)
       IN /\ rx_handlers' = r.tbl
          /\ probe' = [ProbeIdle EXCEPT !.pc = "wait", !.setup = r.ret]
    /\ UNCHANGED <<lastOp, ev, ts>>
    /\ UNCHANGED <<hsspiVars, threadVars, orchVars, bypassVars, notProbe>>

ProbeStateWait ==
    /\ probe.pc = "wait"
    /\ \E r \in StateWaitResults : probe' = qm35_spi_probe_wait(probe, r)
    /\ UNCHANGED <<rx_handlers, lastOp, ev, ts>>
    /\ UNCHANGED <<hsspiVars, threadVars, orchVars, bypassVars, notProbe>>

ProbeDeviceReset ==
    /\ probe.pc = "reset"
    /\ \E st \in UciCmdStatuses : probe' = qm35_spi_probe_reset(probe, st)
    /\ UNCHANGED <<rx_handlers, lastOp, ev, ts>>
    /\ UNCHANGED <<hsspiVars, threadVars, orchVars, bypassVars, notProbe>>

ProbeDeviceInfo ==
    /\ probe.pc = "info"
    /\ \E st \in UciCmdStatuses : probe' = qm35_spi_probe_info(probe, st)
    /\ UNCHANGED <<rx_handlers, lastOp, ev, ts>>
    /\ UNCHANGED <<hsspiVars, threadVars, orchVars, bypassVars, notProbe>>

\* Lines 750-753: qm35_uci_probe_cleanup() and the return of rc.
ProbeCleanup ==
    /\ probe.pc = "cleanup"
    /\ rx_handlers' = qm35_transport_unregister(rx_handlers,
                          QM35_TRANSPORT_MSG_UCI, QM35_TRANSPORT_PRIO_HIGH,
                          qm35_uci_probe_handle).tbl
    /\ probe' = [probe EXCEPT !.pc = "returned"]
    /\ UNCHANGED <<lastOp, ev, ts>>
    /\ UNCHANGED <<hsspiVars, threadVars, orchVars, bypassVars, notProbe>>

\* Another client of the UCI type (the bypass channel registers a High
\* handler, a protocol module a Normal one) registers or unregisters.
UciClientArgs ==
    [type : {QM35_TRANSPORT_MSG_UCI},
     prio : {QM35_TRANSPORT_PRIO_HIGH, QM35_TRANSPORT_PRIO_NORMAL},
     cb : Callbacks]

ClientRegister ==
    \E a \in UciClientArgs :
        LET r == qm35_transport_register(rx_handlers, a.type, a.prio, a.cb,
                                         CallbackData[a.cb])
        IN /\ rx_handlers' = r.tbl
           /\ lastOp' = [op |-> "register", type |-> a.type, prio |-> a.prio,
                         cb |-> a.cb, ret |-> r.ret]
           /\ UNCHANGED <<ev, ts, probe>>
           /\ UNCHANGED <<hsspiVars, threadVars, orchVars, bypassVars, notProbe>>

ClientUnregister ==
    \E a \in UciClientArgs :
        LET r == qm35_transport_unregister(rx_handlers, a.type, a.prio, a.cb)
        IN /\ rx_handlers' = r.tbl
           /\ lastOp' = [op |-> "unregister", type |-> a.type,
                         prio |-> a.prio, cb |-> a.cb, ret |-> r.ret]
           /\ UNCHANGED <<ev, ts, probe>>
           /\ UNCHANGED <<hsspiVars, threadVars, orchVars, bypassVars, notProbe>>

ProbeNext ==
    \/ ProbeSetup
    \/ ProbeStateWait
    \/ ProbeDeviceReset
    \/ ProbeDeviceInfo
    \/ ProbeCleanup
    \/ ClientRegister
    \/ ClientUnregister

(***************************************************************************)
(* Power requests (qm35_transport_start / _stop, base/qm/qm35_transport.c; *)
(* qm35_spi_start / _stop, spi/qm/qm35_spi_transport.c) over the runtime   *)
(* power management of the device (spi/qm/qm35_spi_pm.c): the usage count  *)
(* of the device, its runtime status with the suspend and resume callbacks *)
(* of the driver, and the counted supply of the regulators.                *)
(***************************************************************************)
\* Threads that call start and stop.
PThreads == {1, 2}
\* Number of starts a thread may hold at a time.
MaxStarts == 2

ENODEV == 19

\* supply: state of the regulators ("partial": some are on, some are off);
\* enabled: regulators.enabled; module_refs: references on the SPI module;
\* forced: usage counts taken by qm35_spi_power(on) that no
\* qm35_spi_power(off) has dropped.
PmSuspended ==
    [usage_count |-> 0, status |-> "suspended", runtime_error |-> FALSE,
     started |-> FALSE, enabled |-> 0, supply |-> "off", module_refs |-> 0,
     forced |-> 0]

\* held: successful starts of the thread not yet followed by their stop.
PCallIdle == [pc |-> "idle", rc |-> 0, held |-> 0]

PLastNone == [op |-> "none", thread |-> 0, rc |-> 0]

\* How the regulators answer a change: all of them change, the first one
\* fails (nothing changed), or a later one fails (some changed).
RegulatorResults == {"ok", "fail_first", "fail_later"}

\* qm35_spi_power_supply(): the counter decides if the regulators change.
qm35_spi_power_supply(p, on, reg) ==
    LET n == IF on THEN p.enabled + 1 ELSE p.enabled - 1
        q == [p EXCEPT !.enabled = n]
    IN IF (on /\ n > 1) \/ (~on /\ n # 0)
       THEN [rc |-> 0, pm |-> q]
       ELSE IF reg = "ok"
            THEN [rc |-> 0,
                  pm |-> [q EXCEPT !.supply = IF on THEN "on" ELSE "off"]]
            ELSE IF reg = "fail_first"
                 THEN [rc |-> -EIO, pm |-> q]
                 ELSE [rc |-> -EIO, pm |-> [q EXCEPT !.supply = "partial"]]

\* qm35_pm_runtime_resume() as run by the PM core for a suspended device: a
\* failed callback leaves the device suspended with its error recorded.
qm35_pm_runtime_resume(p, reg) ==
    LET r == qm35_spi_power_supply(p, TRUE, reg)
    IN IF r.rc < 0
       THEN [rc |-> r.rc, pm |-> [r.pm EXCEPT !.runtime_error = TRUE]]
       ELSE [rc |-> 0, pm |-> [r.pm EXCEPT !.status = "active"]]

\* qm35_pm_runtime_suspend() as run by the PM core for an idle device.
qm35_pm_runtime_suspend(p, reg) ==
    LET r == qm35_spi_power_supply(p, FALSE, reg)
    IN IF r.rc < 0
       THEN [rc |-> r.rc, pm |-> [r.pm EXCEPT !.runtime_error = TRUE]]
       ELSE [rc |-> 0, pm |-> [r.pm EXCEPT !.status = "suspended"]]

\* pm_runtime_resume(): -EINVAL after a callback error, else the device is
\* active already or is resumed through the callback.
pm_runtime_resume(p, reg) ==
    IF p.runtime_error THEN [rc |-> -EINVAL, pm |-> p]
    ELSE IF p.status = "active" THEN [rc |-> 1, pm |-> p]
    ELSE qm35_pm_runtime_resume(p, reg)

\* pm_runtime_resume_and_get(): take a usage count and resume; the count
\* is given back when the resume fails.
pm_runtime_resume_and_get_no_count(p, reg) ==
    LET r == pm_runtime_resume(p, reg)
    IN IF r.rc < 0 THEN r ELSE [rc |-> 0, pm |-> r.pm]

pm_runtime_resume_and_get(p, reg) ==
    LET r == pm_runtime_resume([p EXCEPT !.usage_count = @ + 1], reg)
    IN IF r.rc < 0
       THEN [rc |-> r.rc, pm |-> [r.pm EXCEPT !.usage_count = @ - 1]]
       ELSE [rc |-> 0, pm |-> r.pm]

\* What the PM core of the kernel the driver is built for does with a put
\* at a usage count of zero: the count goes negative (atomic_dec_and_test),
\* or the put is refused and the count stays at zero.
UnderflowKinds == {"negative", "refused"}

\* pm_runtime_put(): drop a usage count; at zero the device becomes idle
\* and is suspended later by the PM core.
pm_runtime_put(p, underflow) ==
    IF p.usage_count = 0 /\ underflow = "refused" THEN p
    ELSE [p EXCEPT !.usage_count = @ - 1]

\* qm35_spi_start() lines 87-92: try_module_get(), -ENODEV when the module
\* is going away.
PStart(t) ==
    /\ pcall[t].pc = "idle"
    /\ pcall[t].held < MaxStarts
    /\ \E got \in BOOLEAN :
           IF got
           THEN /\ power' = [power EXCEPT !.module_refs = @ + 1]
                /\ pcall' = [pcall EXCEPT ![t].pc = "pm_start"]
                /\ UNCHANGED plast
           ELSE /\ pcall' = [pcall EXCEPT ![t].rc = -ENODEV]
                /\ plast' = [op |-> "start", thread |-> t, rc |-> -ENODEV]
                /\ UNCHANGED power
    /\ UNCHANGED <<dispatchVars, hsspiVars, threadVars, orchVars, bypassVars,
                   notPower>>

\* qm35_spi_pm_start() line 200: pm_runtime_resume_and_get().
PStartGet(t) ==
    /\ pcall[t].pc = "pm_start"
    /\ \E reg \in RegulatorResults :
           LET r == pm_runtime_resume_and_get(power, reg)
           IN /\ power' = r.pm
              /\ pcall' = [pcall EXCEPT ![t].pc = "start_flag",
                              ![t].rc = r.rc,
                              ![t].held = IF r.rc < 0 THEN @ ELSE @ + 1]
              /\ plast' = [op |-> "start", thread |-> t, rc |-> r.rc]
    /\ UNCHANGED <<dispatchVars, hsspiVars, threadVars, orchVars, bypassVars,
                   notPower>>

\* qm35_spi_pm_start() line 201 and qm35_spi_start() lines 96-102: the
\* started flag, module_put() after a failure, return rc.
PStartFlag(t) ==
    /\ pcall[t].pc = "start_flag"
    /\ power' = [power EXCEPT !.started = power.usage_count > 0,
                        !.module_refs = IF pcall[t].rc < 0 THEN @ - 1 ELSE @]
    /\ pcall' = [pcall EXCEPT ![t].pc = "idle"]
    /\ UNCHANGED plast
    /\ UNCHANGED <<dispatchVars, hsspiVars, threadVars, orchVars, bypassVars,
                   notPower>>

\* qm35_spi_stop() and qm35_spi_pm_stop() lines 215-217, by a thread that
\* holds a start: pm_runtime_put().
PStop(t) ==
    /\ pcall[t].pc = "idle"
    /\ pcall[t].held > 0
    /\ \E underflow \in UnderflowKinds :
           power' = pm_runtime_put(power, underflow)
    /\ pcall' = [pcall EXCEPT ![t].pc = "stop_flag", ![t].rc = 0,
                              ![t].held = @ - 1]
    /\ plast' = [op |-> "stop", thread |-> t, rc |-> 0]
    /\ UNCHANGED <<dispatchVars, hsspiVars, threadVars, orchVars, bypassVars,
                   notPower>>

\* qm35_spi_pm_stop() line 218 and qm35_spi_stop() line 126: the started
\* flag and module_put().
PStopFlag(t) ==
    /\ pcall[t].pc = "stop_flag"
    /\ power' = [power EXCEPT !.started = power.usage_count > 0,
                        !.module_refs = @ - 1]
    /\ pcall' = [pcall EXCEPT ![t].pc = "idle"]
    /\ UNCHANGED plast
    /\ UNCHANGED <<dispatchVars, hsspiVars, threadVars, orchVars, bypassVars,
                   notPower>>

\* The PM core suspends the device once it is idle: no usage count is
\* held, the device is active and no callback has failed before.
PmAutoSuspend ==
    /\ power.usage_count = 0
    /\ power.status = "active"
    /\ ~power.runtime_error
    /\ \E reg \in RegulatorResults :
           power' = qm35_pm_runtime_suspend(power, reg).pm
    /\ UNCHANGED <<pcall, plast>>
    /\ UNCHANGED <<dispatchVars, hsspiVars, threadVars, orchVars, bypassVars,
                   notPower>>

\* qm35_spi_pm_resume(), called by send and recv: resume without a count.
PmResume ==
    /\ power.status = "suspended"
    /\ \E reg \in RegulatorResults : power' = pm_runtime_resume(power, reg).pm
    /\ UNCHANGED <<pcall, plast>>
    /\ UNCHANGED <<dispatchVars, hsspiVars, threadVars, orchVars, bypassVars,
                   notPower>>

\* qm35_spi_power(on) lines 487-489: nothing when started is set, else
\* qm35_spi_pm_start() up to its pm_runtime_resume_and_get().
PPowerOn(t) ==
    /\ pcall[t].pc = "idle"
    /\ IF power.started
       THEN /\ plast' = [op |-> "power_on", thread |-> t, rc |-> 0]
            /\ UNCHANGED <<power, pcall>>
       ELSE \E reg \in RegulatorResults :
                LET r == pm_runtime_resume_and_get(power, reg)
                IN /\ power' = [r.pm EXCEPT
                                  !.forced = IF r.rc < 0 THEN @ ELSE @ + 1]
                   /\ pcall' = [pcall EXCEPT ![t].pc = "power_flag",
                                             ![t].rc = r.rc]
                   /\ plast' = [op |-> "power_on", thread |-> t,
                                rc |-> r.rc]
    /\ UNCHANGED <<dispatchVars, hsspiVars, threadVars, orchVars, bypassVars,
                   notPower>>

\* qm35_spi_power(off) lines 490-492: nothing when started is clear, else
\* qm35_spi_pm_stop() up to its pm_runtime_put().
PPowerOff(t) ==
    /\ pcall[t].pc = "idle"
    /\ IF ~power.started
       THEN /\ plast' = [op |-> "power_off", thread |-> t, rc |-> 0]
            /\ UNCHANGED <<power, pcall>>
       ELSE \E underflow \in UnderflowKinds :
                /\ power' = [pm_runtime_put(power, underflow) EXCEPT
                                !.forced = IF @ > 0 THEN @ - 1 ELSE 0]
                /\ pcall' = [pcall EXCEPT ![t].pc = "power_flag",
                                          ![t].rc = 0]
                /\ plast' = [op |-> "power_off", thread |-> t, rc |-> 0]
    /\ UNCHANGED <<dispatchVars, hsspiVars, threadVars, orchVars, bypassVars,
                   notPower>>

\* qm35_spi_pm_start() line 201 or qm35_spi_pm_stop() line 218 as called by
\* qm35_spi_power(): the started flag, return rc.
PPowerFlag(t) ==
    /\ pcall[t].pc = "power_flag"
    /\ power' = [power EXCEPT !.started = power.usage_count > 0]
    /\ pcall' = [pcall EXCEPT ![t].pc = "idle"]
    /\ UNCHANGED plast
    /\ UNCHANGED <<dispatchVars, hsspiVars, threadVars, orchVars, bypassVars,
                   notPower>>

\* Start and stop with the power callback of the transport.
PowerForceNext ==
    \/ \E t \in PThreads : PStart(t)
    \/ \E t \in PThreads : PStartGet(t)
    \/ \E t \in PThreads : PStartFlag(t)
    \/ \E t \in PThreads : PStop(t)
    \/ \E t \in PThreads : PStopFlag(t)
    \/ \E t \in PThreads : PPowerOn(t)
    \/ \E t \in PThreads : PPowerOff(t)
    \/ \E t \in PThreads : PPowerFlag(t)
    \/ PmAutoSuspend
    \/ PmResume

PowerNext ==
    \/ \E t \in PThreads : PStart(t)
    \/ \E t \in PThreads : PStartGet(t)
    \/ \E t \in PThreads : PStartFlag(t)
    \/ \E t \in PThreads : PStop(t)
    \/ \E t \in PThreads : PStopFlag(t)
    \/ PmAutoSuspend
    \/ PmResume

(***************************************************************************)
(* Life-cycle notifications (base/qm/qm35_notifier.c) to the auxiliary     *)
(* modules, as sent by qm35_register_device() and                          *)
(* qm35_unregister_device() (base/qm/qm35_core.c).                         *)
(***************************************************************************)
\* Modules that install a notifier block.
NfModules == {"coredump", "logs", "uci_dev"}

QM35_NOTIFIER_EVENT_NEW == "NEW"
QM35_NOTIFIER_EVENT_DELETE == "DELETE"
QM35_NOTIFIER_EVENT_ONLINE == "ONLINE"

NOTIFY_DONE == "NOTIFY_DONE"
NOTIFY_STOP == "NOTIFY_STOP"

\* chain: the blocks of qm35_notifier_list, first registered first;
\* device: "absent", "present" (registered) or "deleted";
\* attached: modules that hold a context for the device.
NfEmpty == [chain |-> <<>>, device |-> "absent", attached |-> {}]

\* op: the operation that notified; calls: the <<module, event>> pairs in
\* the order of the calls; stopped: some block returned NOTIFY_STOP;
\* deleted: the device went away.
NLogNone ==
    [op |-> "none", event |-> "none", calls |-> <<>>, stopped |-> FALSE,
     deleted |-> FALSE]

\* blocking_notifier_call_chain(): call the blocks in the order of the
\* chain until one answers with the stop bit; the blocks called.
RECURSIVE CallChain(_, _)
CallChain(chain, stoppers) ==
    IF chain = <<>> THEN <<>>
    ELSE IF Head(chain) \in stoppers THEN <<Head(chain)>>
         ELSE <<Head(chain)>> \o CallChain(Tail(chain), stoppers)

SeqRange(q) == {q[i] : i \in 1 .. Len(q)}

\* qm35_notifier_notify(): the record of one notification.  A stopping
\* answer is reported by a warning only.
qm35_notifier_notify(chain, event, stoppers) ==
    LET called == CallChain(chain, stoppers)
    IN [op |-> "none", event |-> event,
        calls |-> [i \in 1 .. Len(called) |-> <<called[i], event>>],
        stopped |-> SeqRange(called) \cap stoppers # {},
        deleted |-> FALSE]

\* Blocks that may stop an event: only QM35_NOTIFIER_EVENT_DELETE may be
\* answered with NOTIFY_STOP.
Stoppers(chain, event) ==
    IF event = QM35_NOTIFIER_EVENT_DELETE THEN SUBSET SeqRange(chain)
    ELSE {{}}

\* qm35_register_notifier(): add the block at the end of the chain and
\* tell it of the device that exists (NEW, then ONLINE).
NfRegister(m) ==
    /\ m \notin SeqRange(nf.chain)
    /\ nf' = [nf EXCEPT !.chain = Append(@, m),
                !.attached = IF nf.device = "present" THEN @ \cup {m} ELSE @]
    /\ nlog' = IF nf.device = "present"
               THEN [NLogNone EXCEPT !.op = "qm35_register_notifier",
                        !.event = QM35_NOTIFIER_EVENT_ONLINE,
                        !.calls = << <<m, QM35_NOTIFIER_EVENT_NEW>>,
                                     <<m, QM35_NOTIFIER_EVENT_ONLINE>> >>]
               ELSE NLogNone
    /\ UNCHANGED <<dispatchVars, hsspiVars, threadVars, orchVars, bypassVars,
                   notNotif>>

\* qm35_unregister_notifier().
NfUnregister(m) ==
    /\ m \in SeqRange(nf.chain)
    /\ nf' = [nf EXCEPT !.chain = SelectSeq(@, LAMBDA x : x # m)]
    /\ nlog' = NLogNone
    /\ UNCHANGED <<dispatchVars, hsspiVars, threadVars, orchVars, bypassVars,
                   notNotif>>

\* The calls of qm35_notify_new() in qm35_register_device().
NewCalls ==
    qm35_notifier_notify(nf.chain, QM35_NOTIFIER_EVENT_NEW, {}).calls

\* qm35_register_device(): NEW to the chain, the probing, then ONLINE; a
\* failure of the probing sends DELETE instead.
DeviceRegister ==
    /\ nf.device # "present"
    /\ \E ok \in BOOLEAN :
           IF ok
           THEN LET n == qm35_notifier_notify(nf.chain,
                             QM35_NOTIFIER_EVENT_ONLINE, {})
                IN /\ nf' = [nf EXCEPT !.device = "present",
                                !.attached = SeqRange(nf.chain)]
                   /\ nlog' = [n EXCEPT !.op = "qm35_register_device",
                                        !.calls = NewCalls \o @]
           ELSE \E st \in Stoppers(nf.chain, QM35_NOTIFIER_EVENT_DELETE) :
                  LET n == qm35_notifier_notify(nf.chain,
                               QM35_NOTIFIER_EVENT_DELETE, st)
                  IN /\ nlog' = [n EXCEPT !.op = "qm35_register_device",
                                          !.calls = NewCalls \o @,
                                          !.deleted = TRUE]
                     /\ nf' = [nf EXCEPT !.device = "deleted",
                                  !.attached = {}]
    /\ UNCHANGED <<dispatchVars, hsspiVars, threadVars, orchVars, bypassVars,
                   notNotif>>

\* qm35_unregister_device(): DELETE to the chain, then the debugfs root of
\* the device is removed and 0 is returned.  A module loses its context
\* when it has answered the DELETE event without the stop bit.
DeviceUnregister ==
    /\ nf.device = "present"
    /\ \E st \in Stoppers(nf.chain, QM35_NOTIFIER_EVENT_DELETE) :
           LET n == qm35_notifier_notify(nf.chain,
                        QM35_NOTIFIER_EVENT_DELETE, st)
               gone == {c[1] : c \in SeqRange(n.calls)} \ st
           IN /\ nlog' = [n EXCEPT !.op = "qm35_unregister_device",
                                   !.deleted = TRUE]
              /\ nf' = [nf EXCEPT !.device = "deleted",
                           !.attached = @ \ gone]
    /\ UNCHANGED <<dispatchVars, hsspiVars, threadVars, orchVars, bypassVars,
                   notNotif>>

NotifierNext ==
    \/ \E m \in NfModules : NfRegister(m)
    \/ \E m \in NfModules : NfUnregister(m)
    \/ DeviceRegister
    \/ DeviceUnregister

\* One thread resets the device while the other threads send, with the
\* worker and the interrupt line.
ResetOneNext ==
    \/ ResetStart(1)
    \/ CsBegin(1)
    \/ CsEnd(1)
    \/ ResetPulse(1)
    \/ ResetEnable(1)
    \/ \E c \in Callers : StartSend(c)
    \/ EnqueueNext
    \/ WorkerNext

(***************************************************************************)
(* qm35_transport_send() by a client module (the UCI device, the probe)    *)
(* while the bypass threads open, retarget and close the channel.          *)
(***************************************************************************)
\* qm35_transport_send() lines 179-181 for a type the bypass may claim.
ClientSendCheck ==
    /\ ts.pc \in {"idle", "done"}
    /\ \E type \in BypassTypes :
           ts' = qm35_transport_send_check(rx_handlers, type)
    /\ UNCHANGED <<rx_handlers, lastOp, ev>>
    /\ UNCHANGED <<hsspiVars, threadVars, orchVars, bypassVars, coreVars>>

\* The bypass thread that opens, retargets and closes the channel here.
ClaimingThreads == {1}

SendBypassNext ==
    \/ \E t \in ClaimingThreads : BOpenLock(t)
    \/ \E t \in ClaimingThreads : BSeBegin(t)
    \/ \E t \in ClaimingThreads : BSeReg(t)
    \/ \E t \in ClaimingThreads : BSeSave(t)
    \/ \E t \in ClaimingThreads : BOpenStart(t)
    \/ \E t \in ClaimingThreads : BOpenRollback(t)
    \/ \E t \in ClaimingThreads : BClose(t)
    \/ \E t \in ClaimingThreads : BCloseStop(t)
    \/ \E t \in ClaimingThreads : BControlCheck(t)
    \/ \E t \in ClaimingThreads : BControlOps(t)
    \/ ClientSendCheck
    \/ SendOps

(***************************************************************************)
(* The bypass channel of one thread while qm35_spi_probe() runs: both      *)
(* install their handler in the High slot of UCI.                          *)
(***************************************************************************)
BypassProbeNext ==
    \/ \E t \in ClaimingThreads : BOpenLock(t)
    \/ \E t \in ClaimingThreads : BSeBegin(t)
    \/ \E t \in ClaimingThreads : BSeReg(t)
    \/ \E t \in ClaimingThreads : BSeSave(t)
    \/ \E t \in ClaimingThreads : BOpenStart(t)
    \/ \E t \in ClaimingThreads : BOpenRollback(t)
    \/ \E t \in ClaimingThreads : BClose(t)
    \/ \E t \in ClaimingThreads : BCloseStop(t)
    \/ \E t \in ClaimingThreads : BControlCheck(t)
    \/ \E t \in ClaimingThreads : BControlOps(t)
    \/ ProbeSetup
    \/ ProbeStateWait
    \/ ProbeDeviceReset
    \/ ProbeDeviceInfo
    \/ ProbeCleanup

(***************************************************************************)
(* The inbound queue of the bypass: one thread opens the channel and       *)
(* receives, another thread of the process closes it, and the device       *)
(* delivers frames on the worker.                                          *)
(***************************************************************************)
\* The thread that calls qm35_bypass_close() here.
ClosingThreads == {2}

BypassQueueNext ==
    \/ \E t \in ClaimingThreads : BOpenLock(t)
    \/ \E t \in ClaimingThreads : BOpenStart(t)
    \/ \E t \in ClaimingThreads : BOpenRollback(t)
    \/ \E t \in ClaimingThreads : BRecvCheck(t)
    \/ \E t \in ClaimingThreads : BRecvTake(t)
    \/ \E t \in ClaimingThreads : BRecvCopy(t)
    \/ \E t \in ClosingThreads : BClose(t)
    \/ \E t \in ClosingThreads : BCloseStop(t)
    \/ BEventRecv
    \/ BEventLookup
    \/ BEventCall

(***************************************************************************)
(* Device registration (qm35_register_device(), base/qm/qm35_core.c): the  *)
(* NEW notification, the start and the hard reset of the transport, the    *)
(* probe and firmware update loop, then ONLINE, or DELETE on an error.     *)
(* The transport callbacks are those of the SPI driver                     *)
(* (spi/qm/qm35_spi_transport.c); each is a call whose result is chosen    *)
(* here.                                                                   *)
(***************************************************************************)
ENOSYS == 38
ETIMEDOUT == 110

\* Results of qm35_spi_start(), qm35_spi_reset() and qm35_spi_probe().
RegStartResults == {0, -EIO}
RegResetResults == {0, -ETIMEDOUT}
RegProbeResults == {0, -ETIMEDOUT}
\* Results of qm35_spi_fw_update(): 2 flashed, 1 success without flashing,
\* 0 failure without flashing, or a negative error.
FwUpdateResults == {2, 1, 0, -EIO, -EINTR}
\* debugfs_create_dir(): the directory, an error pointer, or NULL on the
\* kernels that report a failure so.
DebugfsResults == {"dir", "err", "null"}

\* pc: position in qm35_register_device(); rc, fw_update_tried, version_ok:
\* its locals; no_probing: QM35_TRANSPORT_NO_PROBING is set.  probes: calls
\* of qm35_transport_probe(); probe_ok: the last of them succeeded;
\* probe_failed: one of them failed; fw: result of
\* qm35_transport_fw_update(), FwNotCalled before the call; started: the
\* transport is started; events: the events notified, in order.
FwNotCalled == "none"

RegIdle ==
    [pc |-> "idle", rc |-> 0, fw_update_tried |-> FALSE,
     version_ok |-> FALSE, no_probing |-> FALSE, probes |-> 0,
     probe_ok |-> FALSE, probe_failed |-> FALSE, fw |-> FwNotCalled,
     started |-> FALSE, events |-> <<>>]

\* Lines 263-284: the argument and flag checks, qm35_notify_new() and
\* qm35_transport_start().
RegBegin ==
    /\ regdev.pc \in {"idle", "done"}
    /\ nf.device # "present"
    /\ \E async \in BOOLEAN, no_probing \in BOOLEAN, st \in RegStartResults :
           IF async
           THEN /\ regdev' = [RegIdle EXCEPT !.pc = "done", !.rc = -ENOSYS,
                                          !.no_probing = no_probing]
                /\ UNCHANGED <<nf, nlog>>
           ELSE /\ regdev' = [RegIdle EXCEPT
                             !.pc = IF st # 0 THEN "start_error"
                                    ELSE "reset",
                             !.rc = st,
                             !.no_probing = no_probing,
                             !.started = (st = 0),
                             !.events = <<QM35_NOTIFIER_EVENT_NEW>>]
                /\ nlog' = [qm35_notifier_notify(nf.chain,
                                QM35_NOTIFIER_EVENT_NEW, {})
                            EXCEPT !.op = "qm35_register_device"]
                /\ UNCHANGED nf
    /\ UNCHANGED <<dispatchVars, hsspiVars, threadVars, orchVars, bypassVars,
                   notReg>>

\* Lines 286-291: the hard reset before probing; without probing its
\* result is not looked at.
RegReset ==
    /\ regdev.pc = "reset"
    /\ \E r \in RegResetResults :
           regdev' = [regdev EXCEPT !.rc = r,
                              !.pc = IF regdev.no_probing THEN "register_hw"
                                     ELSE "probe"]
    /\ UNCHANGED <<nf, nlog>>
    /\ UNCHANGED <<dispatchVars, hsspiVars, threadVars, orchVars, bypassVars,
                   notReg>>

\* Lines 293-311, the loop body down to the fw_update label: the reset of a
\* second iteration, then the probe unless the reset failed, then the
\* version taken from the device info.
qm35_register_device_probe(r, reset, pr, vok) ==
    LET rc == IF r.fw_update_tried THEN reset ELSE r.rc
    IN IF rc # 0 THEN [r EXCEPT !.pc = "fw_update", !.rc = rc]
       ELSE IF pr < 0
       THEN [r EXCEPT !.pc = "fw_update", !.rc = pr, !.probes = @ + 1,
                      !.probe_ok = FALSE, !.probe_failed = TRUE]
       ELSE [r EXCEPT !.pc = "fw_update", !.rc = pr, !.probes = @ + 1,
                      !.probe_ok = TRUE, !.version_ok = vok]

RegProbe ==
    /\ regdev.pc = "probe"
    /\ \E reset \in RegResetResults, pr \in RegProbeResults,
          vok \in BOOLEAN :
           regdev' = qm35_register_device_probe(regdev, reset, pr, vok)
    /\ UNCHANGED <<nf, nlog>>
    /\ UNCHANGED <<dispatchVars, hsspiVars, threadVars, orchVars, bypassVars,
                   notReg>>

\* Lines 313-332, from the fw_update label to the loop test: a second error
\* ends the registration; the first iteration calls the firmware update.
qm35_register_device_fw_update(r, fw) ==
    IF r.fw_update_tried /\ r.rc # 0 THEN [r EXCEPT !.pc = "probe_error"]
    ELSE IF ~r.fw_update_tried
    THEN IF fw = -EINTR
         THEN [r EXCEPT !.pc = "probe_error", !.rc = fw, !.fw = fw]
         ELSE LET rc == IF fw = 1 THEN 0 ELSE fw
              IN [r EXCEPT !.rc = rc, !.fw = fw, !.fw_update_tried = TRUE,
                           !.pc = IF rc # 0 THEN "probe"
                                  ELSE "register_hw"]
    ELSE [r EXCEPT !.pc = IF r.rc # 0 THEN "probe" ELSE "register_hw"]

RegFwUpdate ==
    /\ regdev.pc = "fw_update"
    /\ \E fw \in FwUpdateResults :
           regdev' = qm35_register_device_fw_update(regdev, fw)
    /\ UNCHANGED <<nf, nlog>>
    /\ UNCHANGED <<dispatchVars, hsspiVars, threadVars, orchVars, bypassVars,
                   notReg>>

\* Lines 334-351: the debugfs directory, qm35_notify_online(),
\* qm35_transport_stop() and return 0; without the directory rc is
\* PTR_ERR() of what debugfs_create_dir() returned.
RegisterHw ==
    /\ regdev.pc = "register_hw"
    /\ \E d \in DebugfsResults :
           IF d = "dir"
           THEN /\ regdev' = [regdev EXCEPT
                             !.pc = "done", !.rc = 0, !.started = FALSE,
                             !.events = Append(@,
                                            QM35_NOTIFIER_EVENT_ONLINE)]
                /\ nlog' = [qm35_notifier_notify(nf.chain,
                                QM35_NOTIFIER_EVENT_ONLINE, {})
                            EXCEPT !.op = "qm35_register_device"]
                /\ nf' = [nf EXCEPT !.device = "present",
                                    !.attached = SeqRange(nf.chain)]
           ELSE /\ regdev' = [regdev EXCEPT
                             !.pc = "probe_error",
                             !.rc = IF d = "null" THEN 0 ELSE -ENODEV]
                /\ UNCHANGED <<nf, nlog>>
    /\ UNCHANGED <<dispatchVars, hsspiVars, threadVars, orchVars, bypassVars,
                   notReg>>

\* Lines 353-360: qm35_transport_stop() from probe_error, then
\* qm35_notify_delete() and return rc.
RegError ==
    /\ regdev.pc \in {"probe_error", "start_error"}
    /\ \E st \in Stoppers(nf.chain, QM35_NOTIFIER_EVENT_DELETE) :
           /\ nlog' = [qm35_notifier_notify(nf.chain,
                           QM35_NOTIFIER_EVENT_DELETE, st)
                       EXCEPT !.op = "qm35_register_device",
                              !.deleted = TRUE]
           /\ nf' = [nf EXCEPT !.device = "deleted", !.attached = {}]
    /\ regdev' = [regdev EXCEPT
                 !.pc = "done",
                 !.started = IF regdev.pc = "probe_error" THEN FALSE ELSE @,
                 !.events = Append(@, QM35_NOTIFIER_EVENT_DELETE)]
    /\ UNCHANGED <<dispatchVars, hsspiVars, threadVars, orchVars, bypassVars,
                   notReg>>

\* A module installs its notifier block while no registration runs.
RegChainAdd(m) ==
    /\ regdev.pc \in {"idle", "done"}
    /\ NfRegister(m)

\* qm35_unregister_device() of a registered device.
RegUnregister ==
    /\ regdev.pc = "done"
    /\ DeviceUnregister

RegisterNext ==
    \/ \E m \in NfModules : RegChainAdd(m)
    \/ RegBegin
    \/ RegReset
    \/ RegProbe
    \/ RegFwUpdate
    \/ RegisterHw
    \/ RegError
    \/ RegUnregister

vars == <<rx_handlers, lastOp, ev, ts, prd_done, prd_length, should_read,
          should_write, send_size, work_send_ret, combined, fr,
          pending_work, work, workTk, mtx, irqDepth, should_stop, wk,
          callers, stack_ret, bus, work_counter, lastExecTk, lastComplTk,
          nextTicket,
          orch, exton_gpio,
          bypass, skbs, bcall, bret, module_refs, ev_skb, listener_oops,
          probe, power, pcall, plast, nf, nlog, send_params, regdev>>

\* The state after qm35_spi_probe(): empty handler table, no pending read, no
\* work queued; the worker started by qm35_thread_run() found nothing pending
\* and sleeps in qm35_wait_pending_work(); no caller is in the driver.
Init ==
    /\ rx_handlers = [i \in 0 .. MAX_RX_HANDLERS - 1 |-> EmptySlot]
    /\ lastOp = NoOp
    /\ ev = EvIdle
    /\ ts = TsIdle
    /\ prd_done = FALSE
    /\ prd_length = 0
    /\ should_read = FALSE
    /\ should_write = FALSE
    /\ send_size = 0
    /\ work_send_ret = 0
    /\ combined = FALSE
    /\ fr = FrIdle
    /\ pending_work = {}
    /\ work = NIL
    /\ workTk = 0
    /\ mtx = NIL
    /\ irqDepth = 0
    /\ should_stop = FALSE
    /\ wk = [WkStart EXCEPT !.pc = "wait"]
    /\ callers = [c \in Callers |-> CallerIdle]
    /\ stack_ret = [c \in Callers |-> 0]
    /\ bus = {}
    /\ work_counter = 0
    /\ lastExecTk = 0
    /\ lastComplTk = 0
    /\ nextTicket = 1
    /\ orch = OrchIdle
    /\ exton_gpio = FALSE
    /\ bypass = BypassZero
    /\ skbs = [i \in 1 .. MaxFrames |-> SkbNone]
    /\ bcall = [t \in BThreads |-> BCallIdle]
    /\ bret = BRetNone
    /\ module_refs = 0
    /\ ev_skb = 0
    /\ listener_oops = FALSE
    /\ probe = ProbeIdle
    /\ power = PmSuspended
    /\ pcall = [t \in PThreads |-> PCallIdle]
    /\ plast = PLastNone
    /\ nf = NfEmpty
    /\ nlog = NLogNone
    /\ send_params = 0
    /\ regdev = RegIdle

\* The same state with either setting of the combined-write debug flag.
InitAnyDebugFlags ==
    /\ rx_handlers = [i \in 0 .. MAX_RX_HANDLERS - 1 |-> EmptySlot]
    /\ lastOp = NoOp
    /\ ev = EvIdle
    /\ ts = TsIdle
    /\ prd_done = FALSE
    /\ prd_length = 0
    /\ should_read = FALSE
    /\ should_write = FALSE
    /\ send_size = 0
    /\ work_send_ret = 0
    /\ combined \in BOOLEAN
    /\ fr = FrIdle
    /\ pending_work = {}
    /\ work = NIL
    /\ workTk = 0
    /\ mtx = NIL
    /\ irqDepth = 0
    /\ should_stop = FALSE
    /\ wk = [WkStart EXCEPT !.pc = "wait"]
    /\ callers = [c \in Callers |-> CallerIdle]
    /\ stack_ret = [c \in Callers |-> 0]
    /\ bus = {}
    /\ work_counter = 0
    /\ lastExecTk = 0
    /\ lastComplTk = 0
    /\ nextTicket = 1
    /\ orch = OrchIdle
    /\ exton_gpio = FALSE
    /\ bypass = BypassZero
    /\ skbs = [i \in 1 .. MaxFrames |-> SkbNone]
    /\ bcall = [t \in BThreads |-> BCallIdle]
    /\ bret = BRetNone
    /\ module_refs = 0
    /\ ev_skb = 0
    /\ listener_oops = FALSE
    /\ probe = ProbeIdle
    /\ power = PmSuspended
    /\ pcall = [t \in PThreads |-> PCallIdle]
    /\ plast = PLastNone
    /\ nf = NfEmpty
    /\ nlog = NLogNone
    /\ send_params = 0
    /\ regdev = RegIdle

\* The same state on a device with or without the EXTON line.
InitAnyDevice ==
    /\ rx_handlers = [i \in 0 .. MAX_RX_HANDLERS - 1 |-> EmptySlot]
    /\ lastOp = NoOp
    /\ ev = EvIdle
    /\ ts = TsIdle
    /\ prd_done = FALSE
    /\ prd_length = 0
    /\ should_read = FALSE
    /\ should_write = FALSE
    /\ send_size = 0
    /\ work_send_ret = 0
    /\ combined \in BOOLEAN
    /\ fr = FrIdle
    /\ pending_work = {}
    /\ work = NIL
    /\ workTk = 0
    /\ mtx = NIL
    /\ irqDepth = 0
    /\ should_stop = FALSE
    /\ wk = [WkStart EXCEPT !.pc = "wait"]
    /\ callers = [c \in Callers |-> CallerIdle]
    /\ stack_ret = [c \in Callers |-> 0]
    /\ bus = {}
    /\ work_counter = 0
    /\ lastExecTk = 0
    /\ lastComplTk = 0
    /\ nextTicket = 1
    /\ orch = OrchIdle
    /\ exton_gpio \in BOOLEAN
    /\ bypass = BypassZero
    /\ skbs = [i \in 1 .. MaxFrames |-> SkbNone]
    /\ bcall = [t \in BThreads |-> BCallIdle]
    /\ bret = BRetNone
    /\ module_refs = 0
    /\ ev_skb = 0
    /\ listener_oops = FALSE
    /\ probe = ProbeIdle
    /\ power = PmSuspended
    /\ pcall = [t \in PThreads |-> PCallIdle]
    /\ plast = PLastNone
    /\ nf = NfEmpty
    /\ nlog = NLogNone
    /\ send_params = 0
    /\ regdev = RegIdle

\* The same state as Init once qm35_coredump_register() has installed its
\* Normal priority handler for coredump frames.
InitWithConsumers ==
    /\ rx_handlers = [i \in 0 .. MAX_RX_HANDLERS - 1 |->
                         IF i = SlotIdx(QM35_TRANSPORT_MSG_COREDUMP,
                                        QM35_TRANSPORT_PRIO_NORMAL)
                         THEN NormalConsumer ELSE EmptySlot]
    /\ lastOp = NoOp
    /\ ev = EvIdle
    /\ ts = TsIdle
    /\ prd_done = FALSE
    /\ prd_length = 0
    /\ should_read = FALSE
    /\ should_write = FALSE
    /\ send_size = 0
    /\ work_send_ret = 0
    /\ combined = FALSE
    /\ fr = FrIdle
    /\ pending_work = {}
    /\ work = NIL
    /\ workTk = 0
    /\ mtx = NIL
    /\ irqDepth = 0
    /\ should_stop = FALSE
    /\ wk = [WkStart EXCEPT !.pc = "wait"]
    /\ callers = [c \in Callers |-> CallerIdle]
    /\ stack_ret = [c \in Callers |-> 0]
    /\ bus = {}
    /\ work_counter = 0
    /\ lastExecTk = 0
    /\ lastComplTk = 0
    /\ nextTicket = 1
    /\ orch = OrchIdle
    /\ exton_gpio = FALSE
    /\ bypass = BypassZero
    /\ skbs = [i \in 1 .. MaxFrames |-> SkbNone]
    /\ bcall = [t \in BThreads |-> BCallIdle]
    /\ bret = BRetNone
    /\ module_refs = 0
    /\ ev_skb = 0
    /\ listener_oops = FALSE
    /\ probe = ProbeIdle
    /\ power = PmSuspended
    /\ pcall = [t \in PThreads |-> PCallIdle]
    /\ plast = PLastNone
    /\ nf = NfEmpty
    /\ nlog = NLogNone
    /\ send_params = 0
    /\ regdev = RegIdle

\* The same state with a single thread calling the bypass: the other
\* threads are off and make no call.
InitOneCaller ==
    /\ rx_handlers = [i \in 0 .. MAX_RX_HANDLERS - 1 |->
                         IF i = SlotIdx(QM35_TRANSPORT_MSG_COREDUMP,
                                        QM35_TRANSPORT_PRIO_NORMAL)
                         THEN NormalConsumer ELSE EmptySlot]
    /\ lastOp = NoOp
    /\ ev = EvIdle
    /\ ts = TsIdle
    /\ prd_done = FALSE
    /\ prd_length = 0
    /\ should_read = FALSE
    /\ should_write = FALSE
    /\ send_size = 0
    /\ work_send_ret = 0
    /\ combined = FALSE
    /\ fr = FrIdle
    /\ pending_work = {}
    /\ work = NIL
    /\ workTk = 0
    /\ mtx = NIL
    /\ irqDepth = 0
    /\ should_stop = FALSE
    /\ wk = [WkStart EXCEPT !.pc = "wait"]
    /\ callers = [c \in Callers |-> CallerIdle]
    /\ stack_ret = [c \in Callers |-> 0]
    /\ bus = {}
    /\ work_counter = 0
    /\ lastExecTk = 0
    /\ lastComplTk = 0
    /\ nextTicket = 1
    /\ orch = OrchIdle
    /\ exton_gpio = FALSE
    /\ bypass = BypassZero
    /\ skbs = [i \in 1 .. MaxFrames |-> SkbNone]
    /\ bcall = [t \in BThreads |->
                  IF t = 1 THEN BCallIdle ELSE [BCallIdle EXCEPT !.pc = "off"]]
    /\ bret = BRetNone
    /\ module_refs = 0
    /\ ev_skb = 0
    /\ listener_oops = FALSE
    /\ probe = ProbeIdle
    /\ power = PmSuspended
    /\ pcall = [t \in PThreads |-> PCallIdle]
    /\ plast = PLastNone
    /\ nf = NfEmpty
    /\ nlog = NLogNone
    /\ send_params = 0
    /\ regdev = RegIdle

SpecHsspi ==
    /\ InitAnyDebugFlags
    /\ [][HsspiNext]_vars

SpecOrch ==
    /\ InitAnyDevice
    /\ [][OrchNext]_vars

SpecBypass ==
    /\ InitOneCaller
    /\ [][BypassNext]_vars

SpecBypassOps ==
    /\ InitWithConsumers
    /\ [][BypassOpsNext]_vars

SpecThread ==
    /\ Init
    /\ [][ThreadNext]_vars

SpecReset ==
    /\ Init
    /\ [][ResetNext]_vars

SpecDispatch ==
    /\ Init
    /\ [][DispatchNext]_vars

SpecSend ==
    /\ Init
    /\ [][SendNext]_vars

SpecSendBypass ==
    /\ InitWithConsumers
    /\ [][SendBypassNext]_vars

SpecBypassProbe ==
    /\ InitWithConsumers
    /\ [][BypassProbeNext]_vars

SpecBypassQueue ==
    /\ InitWithConsumers
    /\ [][BypassQueueNext]_vars

SpecPowerForce ==
    /\ Init
    /\ [][PowerForceNext]_vars

SpecRegister ==
    /\ Init
    /\ [][RegisterNext]_vars

SpecProbe ==
    /\ Init
    /\ [][ProbeNext]_vars

SpecPower ==
    /\ Init
    /\ [][PowerNext]_vars

SpecNotifier ==
    /\ Init
    /\ [][NotifierNext]_vars

\* The scheduling the claims about progress assume: the worker thread and
\* the callers that are able to run do run, work functions and the
\* interrupt service routine return.  Signals, interrupts, new calls and
\* the shutdown are up to the environment.
ThreadFairness ==
    /\ WF_vars(WorkerGet)
    /\ WF_vars(WorkerWait)
    /\ WF_vars(WorkerIsrBegin)
    /\ WF_vars(WorkerIsrEnd)
    /\ WF_vars(WorkerClearIrq)
    /\ WF_vars(WorkerReadWork)
    /\ WF_vars(WorkerCall)
    /\ WF_vars(WorkerExecEnd)
    /\ WF_vars(WorkerDequeue)
    /\ \A c \in Callers : SF_vars(EnqLock(c))
    /\ \A c \in Callers : WF_vars(EnqWake(c))
    /\ \A c \in Callers : WF_vars(EnqReturn(c))

SpecThreadFair ==
    /\ Init
    /\ [][ThreadNext]_vars
    /\ ThreadFairness

SpecResetOne ==
    /\ Init
    /\ [][ResetOneNext]_vars

(***************************************************************************)
(* C1: all bus I/O of a device is performed by the worker thread: no bus   *)
(* exchange is issued from a caller thread (reset, reset to bootloader     *)
(* included) and no two bus transactions of the device overlap.            *)
(* qm35_spi_reset_wait_ready() calls qm35_spi_set_cs_level(), which runs   *)
(* spi_sync_transfer() in the thread that asked for the reset, so the      *)
(* statement does not hold of the code.                                    *)
(***************************************************************************)
C1_BusOnlyFromWorker ==
    /\ bus \subseteq {Worker}
    /\ Cardinality(bus) <= 1

(***************************************************************************)
(* C2: for any number of threads in qm35_enqueue, at most one Generic item *)
(* is outstanding at any time, and the worker executes and completes the   *)
(* items strictly in the order in which their enqueuers passed the         *)
(* exclusion lock; each execution increments the work counter by one.      *)
(***************************************************************************)
Outstanding == {c \in Callers : callers[c].pc = "wait"}

C2_Step ==
    /\ Cardinality(Outstanding') <= 1
    /\ (QM35_GENERIC_WORK \in pending_work') => work' # NIL
    /\ (wk.pc = "call" /\ wk'.pc = "exec") =>
           /\ wk.tk > lastExecTk
           /\ work_counter' = work_counter + 1
    /\ (wk.pc # "call" \/ wk'.pc # "exec") => work_counter' = work_counter
    /\ (wk.pc = "dequeue" /\ QM35_GENERIC_WORK \in pending_work
            /\ QM35_GENERIC_WORK \notin pending_work') =>
           /\ workTk > lastComplTk
           /\ workTk >= lastExecTk

C2_OneOutstandingInOrder == [][C2_Step]_vars

\* Two items were executed and completed in turn while a third enqueuer is
\* blocked behind the exclusion lock of the one that is waiting.
C2_Witness ==
    /\ work_counter = 2 /\ lastExecTk = 2 /\ lastComplTk = 2
    /\ \E c \in Callers : \E d \in Callers \ {c} :
           /\ callers[c].pc = "wait" /\ mtx = c
           /\ callers[d].pc = "lock"

(***************************************************************************)
(* C3: a frame is delivered to at most one handler; to the High handler    *)
(* whenever one is registered for the frame's type, to the Normal handler  *)
(* only when the High slot is empty.                                       *)
(***************************************************************************)
C3_HighBeforeNormal ==
    /\ Len(ev.invoked) <= 1
    /\ (ev.pc = "done" /\ ev.looked) =>
          /\ ev.high # NULL => ev.invoked = <<ev.high>>
          /\ (ev.high = NULL /\ ev.normal # NULL) => ev.invoked = <<ev.normal>>
          /\ ev.invoked # <<>> => ev.invoked[1] \in {ev.high, ev.normal}

C3_Witness ==
    /\ ev.pc = "done" /\ ev.looked
    /\ ev.high # NULL /\ ev.normal # NULL /\ ev.high # ev.normal
    /\ ev.invoked = <<ev.high>>

(***************************************************************************)
(* C4: a handler is not called once its unregistration has succeeded: at   *)
(* the moment a callback is invoked it is still registered for the type.   *)
(***************************************************************************)
C4_NoCallAfterUnregister == ev.stale = FALSE

(***************************************************************************)
(* C5: a received frame whose type has neither a High nor a Normal handler *)
(* yields -EOPNOTSUPP, no handler call, exactly one free of the frame and  *)
(* a single reception.                                                     *)
(***************************************************************************)
C5_UnsupportedDropsFrame ==
    (ev.pc = "done" /\ ev.looked /\ ev.high = NULL /\ ev.normal = NULL) =>
        /\ ev.rc = -EOPNOTSUPP
        /\ ev.invoked = <<>>
        /\ ev.freed = 1
        /\ ev.recvCalls = 1

C5_Witness ==
    /\ ev.pc = "done" /\ ev.looked /\ ev.high = NULL /\ ev.normal = NULL
    /\ ev.type < QM35_TRANSPORT_MSG_MAX
    /\ ev.rc = -EOPNOTSUPP

(***************************************************************************)
(* C6: register on an occupied slot fails with -EEXIST, unregister with a  *)
(* handler other than the stored one fails (-EBADF), out-of-range          *)
(* arguments fail with -EINVAL, and in all these cases the table is        *)
(* unchanged: a slot changes only by a register into an empty slot or an   *)
(* unregister with the matching handler, and then only that slot changes.  *)
(***************************************************************************)
ValidArgs(op) ==
    /\ op.cb # NULL
    /\ op.type < QM35_TRANSPORT_MSG_MAX
    /\ op.prio < QM35_TRANSPORT_PRIO_COUNT

C6_Step ==
    LET op == lastOp'
        idx == SlotIdx(op.type, op.prio)
    IN /\ (lastOp' # lastOp /\ op.op = "register") =>
            /\ ~ValidArgs(op) => op.ret = -EINVAL
            /\ (ValidArgs(op) /\ rx_handlers[idx].cb # NULL) =>
                   op.ret = -EEXIST
            /\ (ValidArgs(op) /\ rx_handlers[idx].cb = NULL) => op.ret = 0
       /\ (lastOp' # lastOp /\ op.op = "unregister") =>
            /\ ~ValidArgs(op) => op.ret = -EINVAL
            /\ (ValidArgs(op) /\ rx_handlers[idx].cb # op.cb) =>
                   op.ret = -EBADF
            /\ (ValidArgs(op) /\ rx_handlers[idx].cb = op.cb) => op.ret = 0
       /\ (op.ret # 0 \/ lastOp' = lastOp) => rx_handlers' = rx_handlers
       /\ rx_handlers' # rx_handlers =>
            /\ ValidArgs(op) /\ op.ret = 0
            /\ \A i \in DOMAIN rx_handlers :
                   i # idx => rx_handlers'[i] = rx_handlers[i]
            /\ \/ /\ op.op = "register"
                  /\ rx_handlers[idx].cb = NULL
                  /\ rx_handlers'[idx].cb = op.cb
               \/ /\ op.op = "unregister"
                  /\ rx_handlers[idx].cb = op.cb
                  /\ rx_handlers'[idx] = EmptySlot

C6_TableChangesOnlyBySuccess == [][C6_Step]_vars

\* A register was refused on an occupied slot holding another handler.
C6_Witness ==
    /\ lastOp.op = "register" /\ lastOp.ret = -EEXIST
    /\ rx_handlers[SlotIdx(lastOp.type, lastOp.prio)].cb \notin
           {NULL, lastOp.cb}

(***************************************************************************)
(* C7: qm35_transport_send returns -EBUSY without calling the transport    *)
(* send when the type has a High handler, -EINVAL for an out-of-range      *)
(* type, and otherwise exactly the result of the transport send.           *)
(***************************************************************************)
C7_SendRefusedWhenClaimed ==
    /\ ts.pc = "checked" =>
          (ts.type < QM35_TRANSPORT_MSG_MAX /\ ts.high = NULL)
    /\ ts.pc = "done" =>
          /\ ts.type >= QM35_TRANSPORT_MSG_MAX =>
                (ts.ret = -EINVAL /\ ts.sendCalls = 0)
          /\ (ts.type < QM35_TRANSPORT_MSG_MAX /\ ts.high # NULL) =>
                (ts.ret = -EBUSY /\ ts.sendCalls = 0)
          /\ (ts.type < QM35_TRANSPORT_MSG_MAX /\ ts.high = NULL) =>
                (ts.sendCalls = 1 /\ ts.ret = ts.opsRet)

C7_Witness ==
    /\ ts.pc = "done" /\ ts.high # NULL
    /\ ts.ret = -EBUSY /\ ts.sendCalls = 0

(***************************************************************************)
(* C8: when the read exchange echoes a length other than the announced     *)
(* one, recv returns -EPROTO and PendingReadState is invalid; the recv     *)
(* that follows starts without a pending read, so every read exchange it   *)
(* issues is preceded by its own pre-read and sized by that pre-read.      *)
(***************************************************************************)
C8_ProtocolMismatchRestarts ==
    /\ (fr.op = "recv" /\ fr.pc = "done" /\ fr.rdOk
        /\ fr.echoLen # fr.length) =>
           (fr.ret = -EPROTO /\ ~prd_done)
    /\ (fr.op = "recv" /\ fr.prevOp = "recv" /\ fr.prevRet = -EPROTO) =>
           /\ ~fr.validAtStart
           /\ fr.pc \in {"recv_ready", "recv_read"} => fr.prdCount = 1
           /\ fr.rdCount > 0 => (fr.prdCount = 1 /\ fr.length = fr.prdLen)

C8_Witness ==
    /\ fr.op = "recv" /\ fr.pc = "done"
    /\ fr.prevOp = "recv" /\ fr.prevRet = -EPROTO
    /\ fr.prdCount = 1 /\ fr.rdCount = 1 /\ fr.ret = fr.prdLen /\ fr.ret > 0

(***************************************************************************)
(* C9 as stated: with a valid PendingReadState recv issues no pre-read, no *)
(* recv issues two pre-reads, and a recv right after a send that recorded  *)
(* PendingReadState performs exactly one read exchange of the announced    *)
(* length.                                                                 *)
(***************************************************************************)
AfterRecordingSend ==
    /\ fr.op = "recv" /\ fr.pc = "done"
    /\ fr.prevOp = "send" /\ fr.prevRecorded

ReadWithoutOA ==
    /\ fr.op = "recv" /\ fr.pc = "done" /\ fr.rdOk
    /\ fr.echoLen = fr.length
    /\ ~HasFlag(fr.echoFlags, HSSPI_SOC_OA)

SendReturned == orch.op = "send" /\ orch.pc = "done"
RecvReturned == orch.op = "recv" /\ orch.pc = "done"

\* Every attempt of the call returned Busy.
AllBusy == orch.attempts >= 1 /\ orch.busy = orch.attempts

\* C11: whenever qm35_spi_recv() returns an error, on any failure path,
\* prd_done is false on return.
C11_RecvErrorClearsPrdDone ==
    (RecvReturned /\ orch.ret < 0) => ~prd_done

\* C12: for send and recv alike, a Busy, NotReady or ProtocolMismatch result
\* is retried by the orchestrator and reaches the caller only once the retry
\* bound is used up.
C12_RetriedUntilBound ==
    (orch.pc = "done" /\ orch.attempts >= 1
        /\ orch.ret \in {-EBUSY, -EAGAIN, -EPROTO})
    => orch.attempts >= QM35_HSSPI_RETRY_COUNT

\* C13: when every attempt of a send returns Busy, exactly
\* QM35_HSSPI_RETRY_COUNT attempts are made in total and the call returns
\* Busy.
C13_AllBusyExactlyRetryCount ==
    (SendReturned /\ AllBusy)
    => (orch.attempts = QM35_HSSPI_RETRY_COUNT /\ orch.ret = -EBUSY)

\* C14: in a send on a device without the EXTON line no wake-up is forced on
\* the first attempt, at most one is forced in the whole send, and exactly
\* one when every attempt returned Busy.
C14_OneForcedWakeup ==
    (orch.op = "send" /\ ~exton_gpio)
    => /\ orch.attempts <= 1 => orch.wakeups = 0
       /\ orch.wakeups <= 1
       /\ (SendReturned /\ AllBusy) => orch.wakeups = 1

(***************************************************************************)
(* Claims on cancellation (SpecThread).                                    *)
(***************************************************************************)
\* Caller c is leaving qm35_enqueue() after a signal interrupted its wait.
CancelledReturning(c) == callers[c].pc = "ret" /\ callers[c].cancelled

\* C15: a caller interrupted by a signal while waiting in qm35_enqueue() for
\* its Generic item returns -EINTR, the value qm35_enqueue() reads from
\* cmd->ret at its return statement.
C15_CancelledReturnsEINTR ==
    \A c \in Callers : CancelledReturning(c) => DescRet(CmdOf(c)) = -EINTR

\* The other half of C15: the step that cancels a caller is the caller's
\* own (the worker takes no part in it), and a worker that had entered the
\* work function stays in it, on the bus, until the function returns.
C15_CancelStep ==
    \A c \in Callers :
        (~CancelledReturning(c) /\ CancelledReturning(c)')
        => /\ wk' = wk
           /\ bus' = bus
           /\ DescRet(CmdOf(c))' = -EINTR
           /\ QM35_GENERIC_WORK \notin pending_work'

C15_CancelLeavesWorkerRunning == [][C15_CancelStep]_vars

(***************************************************************************)
(* Claims on the bypass channel (SpecBypassOps, SpecBypass).               *)
(***************************************************************************)
\* What a refused call must leave alone: channel state and owner, the
\* queue, the handler table, the frames, the module reference.
BypassUntouched ==
    UNCHANGED <<bypass, rx_handlers, skbs, module_refs, listener_oops>>

\* A step in which a call of operation op returns from its first region:
\* no call in progress is affected.
ReturnsAtOnce(op) == bcall' = bcall /\ bret'.op = op

\* C16: qm35_bypass_open() on an Open channel fails with -EBUSY and
\* qm35_bypass_close() on a Closed channel with -EBADF, both without any
\* change of the channel, the registration or the queue; and at most one
\* open succeeds between two closes.
C16_Step ==
    /\ (ReturnsAtOnce("open") /\ bypass.opened)
       => (bret'.rc = -EBUSY /\ BypassUntouched)
    /\ (ReturnsAtOnce("close") /\ ~bypass.opened)
       => (bret'.rc = -EBADF /\ BypassUntouched)
    /\ bypass'.opens <= 1

C16_TwoStateMachine == [][C16_Step]_vars

\* A call other than qm35_bypass_open() made on an opened channel by a
\* thread of another process than the owner returns in the step that
\* makes it.
ForeignReturn ==
    /\ bcall' = bcall
    /\ bret'.op \notin {"none", "open"}
    /\ bypass.opened
    /\ bret'.tgid # bypass.owner

\* Such a call goes on past its check: a thread leaves idle and the call it
\* makes is none of the owner's.
ForeignEnters ==
    /\ bypass.opened
    /\ \E t \in BThreads :
           /\ bcall[t].pc = "idle"
           /\ bcall'[t].pc # "idle"
           /\ bcall'[t].op # "open"
           /\ bcall'[t].tgid # bypass.owner

(***************************************************************************)
(* C17 as stated: every operation other than open (close, control, send,   *)
(* recv) made by a thread whose tgid differs from the owner's returns      *)
(* -EPERM and has no effect: channel, owner, queue, registration and       *)
(* module reference are unchanged, and the call never gets to a transport  *)
(* operation.  A send of zero bytes is refused with -EINVAL before the     *)
(* owner is looked at, so the result is not always -EPERM.                 *)
(***************************************************************************)
C17_OrigStep ==
    /\ ForeignReturn => (bret'.rc = -EPERM /\ BypassUntouched)
    /\ ~ForeignEnters
C17_Step ==
    /\ ForeignReturn =>
           /\ \/ bret'.rc = -EPERM
              \/ bret'.op = "send" /\ bret'.rc = -EINVAL
           /\ BypassUntouched
    /\ ~ForeignEnters
SwapGap(arg) ==
    \E t \in BThreads : bcall[t].pc = "se_reg" /\ bcall[t].arg = arg

(***************************************************************************)
(* C18: changing the expected type of an open channel swaps the High       *)
(* registration atomically with respect to dispatch: a frame of the old    *)
(* type or of the new type looked up by qm35_transport_event() while the   *)
(* swap is under way is handed to the bypass handler, never to another     *)
(* handler such as the Normal consumer.  qm35_bypass_set_expected() removes *)
(* the old registration and installs the new one in two separate locked    *)
(* regions of the table, so the statement does not hold of the code.       *)
(***************************************************************************)
C18_Step ==
    (/\ ev.pc = "recvd"
     /\ ev'.pc # "recvd"
     /\ bypass.opened
     /\ \/ ev.type = bypass.expected_type /\ \E a \in BypassTypes : SwapGap(a)
        \/ SwapGap(ev.type))
    => (ev'.pc = "found" /\ ev'.handler.cb = qm35_bypass_event_cb)
C18_AtomicSwap == [][C18_Step]_vars

\* A call of qm35_bypass_close() passes its check and cleans up.
CloseSucceeds ==
    \E t \in BThreads : bcall[t].pc = "idle" /\ bcall'[t].pc = "close_stop"

(***************************************************************************)
(* C19: after a successful qm35_bypass_close() the channel is closed with  *)
(* no owner, the bypass handler is in no High slot, the queue is empty and *)
(* every frame that was queued has been freed exactly once, and the module *)
(* reference is released.  A close that runs while qm35_bypass_control()   *)
(* is between the installation of the new handler and the saving of the    *)
(* new expected type removes the handler of the old type only, so the      *)
(* statement does not hold of the code.                                    *)
(***************************************************************************)
C19_Step ==
    CloseSucceeds =>
        /\ ~bypass'.opened
        /\ bypass'.owner = 0
        /\ \A type \in 0 .. QM35_TRANSPORT_MSG_MAX - 1 :
               SlotCb(rx_handlers', type, QM35_TRANSPORT_PRIO_HIGH)
                 # qm35_bypass_event_cb
        /\ bypass'.packets = <<>>
        /\ \A i \in Range(bypass.packets) : skbs'[i].freed = 1
        /\ module_refs' = module_refs - 1
C19_CloseReleasesAll == [][C19_Step]_vars

\* The threads that run the locked region of qm35_bypass_recv() in a step.
Taking ==
    {t \in BThreads : bcall[t].pc = "recv_take" /\ bcall'[t].pc # "recv_take"}

(***************************************************************************)
(* C20: qm35_bypass_recv() returns -EAGAIN when no packet is queued,       *)
(* -EMSGSIZE when the buffer is smaller than the packet that waits, and    *)
(* the length of the message on success.  The code caps len to skb->len    *)
(* and copies the first len bytes of a packet larger than the buffer; it   *)
(* never returns -EMSGSIZE, so the statement does not hold of the code.    *)
(***************************************************************************)
C20_Step ==
    /\ \A t \in Taking :
           /\ bypass.packets = <<>> =>
                  bret' = [op |-> "recv", tgid |-> bcall[t].tgid,
                           rc |-> -EAGAIN]
           /\ (bypass.packets # <<>>
                  /\ bcall[t].len < skbs[Head(bypass.packets)].len) =>
                  /\ bcall'[t].pc = "idle"
                  /\ bret' = [op |-> "recv", tgid |-> bcall[t].tgid,
                              rc |-> -EMSGSIZE]
                  /\ UNCHANGED <<bypass, skbs>>
    /\ \A t \in BThreads :
           (/\ bcall[t].pc = "recv_copy"
            /\ bcall'[t].pc = "idle"
            /\ bret'.rc >= 0) =>
               (bret'.rc = bcall[t].len /\ skbs'[bcall[t].skb].len = 0)
C20_RecvResults == [][C20_Step]_vars
(***************************************************************************)
(* C21: on every return path of the probe (success, time-out after the    *)
(* single soft-reset retry, soft-reset command error, device-info error)   *)
(* the temporary probe handler is no longer registered in the (UCI, High)  *)
(* slot, and a probe issues at most one soft-reset command.                *)
(***************************************************************************)
ProbeHandlerRegistered ==
    rx_handlers[SlotIdx(QM35_TRANSPORT_MSG_UCI,
                        QM35_TRANSPORT_PRIO_HIGH)].cb = qm35_uci_probe_handle

C21_ProbeLeavesNoHandler ==
    /\ probe.resets <= 1
    /\ probe.pc \in {"idle", "returned"} => ~ProbeHandlerRegistered
    /\ probe.pc = "returned" =>
           probe.path \in {"success", "timeout", "reset_error", "info_error"}

\* The probe returned on the time-out path after its soft reset, and its
\* handler had been installed by the setup.
C21_Witness ==
    /\ probe.pc = "returned"
    /\ probe.path = "timeout"
    /\ probe.resets = 1
    /\ probe.setup = 0

(***************************************************************************)
(* C22: start and stop reference-count the power-on requests: for any      *)
(* interleaving of start and stop calls by independent callers the device  *)
(* stays powered while at least one successful start has not been matched  *)
(* by its stop, and it is released for power-down only by the stop         *)
(* matching the last outstanding start.                                    *)
(***************************************************************************)
RECURSIVE HeldBy(_)
HeldBy(S) ==
    IF S = {} THEN 0
    ELSE LET t == CHOOSE x \in S : TRUE
         IN pcall[t].held + HeldBy(S \ {t})

\* Successful starts not yet matched by their stop.
OutstandingStarts == HeldBy(PThreads)

DevicePowered == power.status = "active" /\ power.supply = "on"

\* A step that powers the device down or hands it to the PM core for it.
PowerDown == power.status = "active" /\ power'.status # "active"
Released == power.usage_count > 0 /\ power'.usage_count = 0

C22_Step ==
    /\ OutstandingStarts > 0 => DevicePowered
    /\ OutstandingStarts' > 0 => DevicePowered'
    /\ PowerDown => OutstandingStarts = 0
    /\ Released =>
           /\ plast'.op = "stop"
           /\ OutstandingStarts = 1
           /\ OutstandingStarts' = 0

C22_StartsKeepPower == [][C22_Step]_vars

\* One of two holders has stopped and the device is still powered for the
\* other one.
C22_Witness ==
    /\ plast.op = "stop"
    /\ pcall[plast.thread].held = 0
    /\ OutstandingStarts = 1
    /\ DevicePowered

(***************************************************************************)
(* C23: life-cycle events are delivered to the auxiliary modules in        *)
(* registration order; when a module vetoes Delete, the modules notified   *)
(* before it are rolled back with NewDevice in reverse order and the       *)
(* device is not deleted; the device is deleted only if no module refuses. *)
(***************************************************************************)
\* The calls of one event among a sequence of calls.
CalledFor(calls, event) ==
    SelectSeq(calls, LAMBDA c : c[2] = event)

\* Position of a module in the chain (0 when it is not in it).
ChainPos(m) ==
    IF \E i \in 1 .. Len(nf.chain) : nf.chain[i] = m
    THEN CHOOSE i \in 1 .. Len(nf.chain) : nf.chain[i] = m
    ELSE 0

InRegistrationOrder(calls) ==
    \A i, j \in 1 .. Len(calls) :
        i < j => ChainPos(calls[i][1]) < ChainPos(calls[j][1])

\* The calls that follow the last Delete call of the notification.
AfterDelete ==
    LET last == CHOOSE i \in 1 .. Len(nlog.calls) :
                    /\ nlog.calls[i][2] = QM35_NOTIFIER_EVENT_DELETE
                    /\ \A j \in i + 1 .. Len(nlog.calls) :
                           nlog.calls[j][2] # QM35_NOTIFIER_EVENT_DELETE
    IN SubSeq(nlog.calls, last + 1, Len(nlog.calls))

\* The NewDevice calls that follow a vetoed Delete undo its Delete calls,
\* the vetoing module excluded, last notified first.
RolledBack ==
    LET del == CalledFor(nlog.calls, QM35_NOTIFIER_EVENT_DELETE)
        new == CalledFor(AfterDelete, QM35_NOTIFIER_EVENT_NEW)
    IN /\ Len(new) = Len(del) - 1
       /\ \A i \in 1 .. Len(new) : new[i][1] = del[Len(del) - i][1]

C23_VetoRollsBack ==
    nlog.op = "qm35_unregister_device" =>
        /\ InRegistrationOrder(CalledFor(nlog.calls,
                                         QM35_NOTIFIER_EVENT_DELETE))
        /\ nlog.stopped => RolledBack /\ ~nlog.deleted
        /\ nlog.deleted => ~nlog.stopped

\* The part of the claim the code keeps: the calls of one event follow the
\* order of registration.
C23_RegistrationOrder ==
    \A e \in {QM35_NOTIFIER_EVENT_NEW, QM35_NOTIFIER_EVENT_DELETE,
              QM35_NOTIFIER_EVENT_ONLINE} :
        InRegistrationOrder(CalledFor(nlog.calls, e))

(***************************************************************************)
(* C24: absent an explicit shutdown the worker never stops serving work,   *)
(* whatever earlier work returned: under fair scheduling and terminating   *)
(* work functions every IRQ flag that is set is eventually handled and     *)
(* cleared, and every enqueued Generic item whose caller is not cancelled  *)
(* is eventually executed and its caller woken with that item's result.    *)
(***************************************************************************)
WorkerStopped == wk.pc \in {"crashed", "exited"}

\* The item queued under ticket k has been executed and completed.
Served(k) == lastExecTk = k /\ lastComplTk = k

\* Interrupts that never cease keep the worker in its interrupt branch;
\* the progress of the Generic items is claimed for the other behaviours.
InterruptsForever == []<><<IrqHandler>>_vars

ItemsServed ==
    \A k \in 1 .. MaxTickets :
        (workTk = k /\ QM35_GENERIC_WORK \in pending_work) ~>
            \/ Served(k)
            \/ \E c \in Callers : callers[c].cancelled
            \/ should_stop

C24_WorkerServes ==
    /\ [](~should_stop => ~WorkerStopped)
    /\ (QM35_IRQ_WORK \in pending_work) ~>
           (QM35_IRQ_WORK \notin pending_work \/ should_stop)
    /\ InterruptsForever \/ ItemsServed

\* The progress of the items alone, on the behaviours in which the worker
\* does not stop.
C24_ItemsServed ==
    \/ InterruptsForever
    \/ <>WorkerStopped
    \/ ItemsServed

(***************************************************************************)
(* C25: whenever the worker selects its next piece of work while the IRQ   *)
(* flag is set, it runs the interrupt handler before any Generic item that *)
(* is queued but not yet started; a Generic item that has started is never *)
(* interrupted by IRQ work: the IRQ is handled only after the item         *)
(* returned.                                                               *)
(***************************************************************************)
\* The worker selects: it leaves the read of the pending bits.
Selects == wk.pc = "get" /\ wk'.pc # "get" /\ ~should_stop

InIsr(w) == w.pc \in {"isr", "isr_x", "clear_irq"}

C25_Step ==
    /\ Selects /\ QM35_IRQ_WORK \in pending_work => wk'.pc = "isr"
    /\ InIsr(wk) => work_counter' = work_counter
    /\ InIsr(wk') /\ ~InIsr(wk) => wk.pc = "get"
    /\ wk.pc = "exec" => wk'.pc \in {"exec", "dequeue"}

C25_IrqBeforeGeneric == [][C25_Step]_vars

\* The interrupt handler runs while a Generic item is queued and waits.
C25_Witness ==
    /\ wk.pc = "isr_x"
    /\ QM35_GENERIC_WORK \in pending_work
    /\ work # NIL

\* A Generic item runs while the IRQ flag is set and waits.
C25_WitnessStarted ==
    /\ wk.pc = "exec"
    /\ QM35_IRQ_WORK \in pending_work

(***************************************************************************)
(* C26: interrupts are coalesced and masked while pending: an interrupt    *)
(* arriving while the IRQ flag is set neither queues a second handler run  *)
(* nor disables the line again; the line is disabled exactly once when the *)
(* flag becomes set and re-enabled exactly once when the worker clears it, *)
(* so in every reachable state the worker-side disable depth is 1 if the   *)
(* flag is set and 0 otherwise.                                            *)
(***************************************************************************)
\* Disables of the line held by threads that reset the device.
ResetDisables == Cardinality({c \in Callers : callers[c].op = "reset"})

\* Disables of the line made for the IRQ flag.
WorkerSideDepth == irqDepth - ResetDisables

IrqFlag == QM35_IRQ_WORK \in pending_work

\* qm35_enqueue_irq() with the flag set changes neither bits nor depth.
Coalesced ==
    \A p \in SUBSET {QM35_GENERIC_WORK, QM35_IRQ_WORK}, d \in 0 .. NumCallers + 1 :
        QM35_IRQ_WORK \in p =>
            qm35_enqueue_irq(p, d) = [pending |-> p, depth |-> d]

C26_Step ==
    /\ Coalesced
    /\ WorkerSideDepth = IF IrqFlag THEN 1 ELSE 0
    /\ WorkerSideDepth' = IF IrqFlag' THEN 1 ELSE 0
    /\ ~IrqFlag /\ IrqFlag' => irqDepth' = irqDepth + 1
    /\ IrqFlag /\ ~IrqFlag' => irqDepth' = irqDepth - 1 /\ wk.pc = "clear_irq"

C26_MaskedWhilePending == [][C26_Step]_vars

\* The flag is set, the line is disabled once for it and once more by a
\* reset in progress.
C26_Witness ==
    /\ IrqFlag
    /\ WorkerSideDepth = 1
    /\ irqDepth = 2

(***************************************************************************)
(* C27: qm35_enqueue called from the worker thread itself (the receive     *)
(* issued by the interrupt handler) executes the item inline and returns   *)
(* its result without taking the exclusion lock and without modifying the  *)
(* pending-work bits or the in-flight slot, so it never deadlocks and      *)
(* never disturbs a Generic item queued by another caller.                 *)
(***************************************************************************)
\* A step of the worker inside its own call of qm35_enqueue.
InlineEnqueueStep == wk.pc \in {"isr", "isr_x"} /\ wk' # wk

C27_Step ==
    /\ wk.pc # "isr_blocked"
    /\ InlineEnqueueStep =>
           /\ wk'.pc = IF wk.pc = "isr" THEN "isr_x" ELSE "clear_irq"
           /\ UNCHANGED <<mtx, pending_work, work, workTk, work_send_ret,
                          stack_ret, callers>>

ResetFlow(bootrom) ==
    {<<"idle", IF bootrom THEN "cs_low" ELSE "pulse">>, <<"enable", "idle">>}
    \cup (IF bootrom
          THEN {<<"cs_low", "cs_low_x">>, <<"cs_low_x", "pulse">>,
                <<"pulse", "cs_high">>, <<"cs_high", "cs_high_x">>,
                <<"cs_high_x", "enable">>}
          ELSE {<<"pulse", "lock">>, <<"lock", "wait">>, <<"lock", "ret">>,
                <<"wait", "ret">>, <<"ret", "enable">>})

C28_Step ==
    \A c \in Callers :
        LET a == callers[c]
            z == callers'[c]
            bootrom == IF a.pc = "idle" THEN z.bootrom ELSE a.bootrom
        IN  (a # z /\ (a.op = "reset" \/ z.op = "reset")) =>
                /\ <<a.pc, z.pc>> \in ResetFlow(bootrom)
                /\ irqDepth' - irqDepth =
                       IF a.pc = "idle" THEN 1
                       ELSE IF z.pc = "idle" THEN -1 ELSE 0
                /\ (z.pc = "wait") =>
                       /\ QM35_GENERIC_WORK \in pending_work'
                       /\ work' = StackWork(c)

C28_ResetSequence == [][C28_Step]_vars

\* A reset whose ready wait was cancelled is about to enable the interrupt.
C28_Witness ==
    \E c \in Callers :
        /\ callers[c].op = "reset"
        /\ callers[c].pc = "enable"
        /\ ~callers[c].bootrom
        /\ stack_ret[c] = -EINTR
        /\ irqDepth >= 1

\* A reset to the bootloader has released the chip select.
C28_WitnessBootrom ==
    \E c \in Callers :
        /\ callers[c].op = "reset"
        /\ callers[c].pc = "enable"
        /\ callers[c].bootrom

(***************************************************************************)
(* C29: enabling the combined read/write variant does not change the       *)
(* contract of recv: for every device response the result of recv          *)
(* (returned length or error) and its effect on the pending-read state     *)
(* are those of recv without a piggybacked outbound frame; only the        *)
(* number of bus transactions differs.                                     *)
(***************************************************************************)
\* The read exchange of this step carried an outbound frame.
Piggybacked == should_write /\ ~(send_size > fr.size)

C29_Step ==
    (fr.pc = "recv_read" /\ fr'.pc = "done") =>
        LET spi == IF fr'.rdOk THEN 0 ELSE fr'.ret
            plain == qm35_hsspi_recv_read(FALSE, fr.length, spi,
                                          fr'.echoFlags, fr'.echoLen,
                                          work_send_ret)
        IN  /\ fr'.ret = plain.ret
            /\ prd_done' = (IF plain.reset THEN FALSE ELSE prd_done)
            /\ prd_length' = prd_length
            /\ fr'.rdCount = fr.rdCount + 1
            /\ fr'.wrCount = fr.wrCount + (IF Piggybacked THEN 1 ELSE 0)
            /\ ~Piggybacked => UNCHANGED <<should_write, work_send_ret>>

C29_CombinedKeepsRecvContract == [][C29_Step]_vars

\* A read that succeeded while the frame it carried was refused by the
\* device: the send stays queued with -EAGAIN.
C29_Witness ==
    /\ combined
    /\ fr.pc = "done"
    /\ fr.op = "recv"
    /\ fr.rdCount = 1
    /\ fr.wrCount = 1
    /\ fr.ret = fr.length
    /\ fr.length > 0
    /\ should_write
    /\ work_send_ret = -EAGAIN

\* A read that failed while the frame it carried was accepted.
C29_WitnessWritten ==
    /\ combined
    /\ fr.pc = "done"
    /\ fr.op = "recv"
    /\ fr.wrCount = 1
    /\ fr.ret = -EPROTO
    /\ ~should_write
    /\ ~prd_done

(***************************************************************************)
(* C30: every qm35_enqueue call that returns a result other than           *)
(* cancellation returns the result of an execution of its own item that    *)
(* the worker started after the call queued it: the result of an item      *)
(* whose enqueuer was cancelled is never written to, and never wakes, a    *)
(* later enqueuer, even when the same descriptor is queued again.          *)
(***************************************************************************)
\* Caller c is woken by the completion of its item.
WokenByCompletion(c) ==
    /\ callers[c].pc = "wait"
    /\ callers'[c].pc = "ret"
    /\ ~callers'[c].cancelled

\* The worker's qm35_dequeue() finds its descriptor queued and completes it.
CompletesQueued == wk.pc = "dequeue" /\ wk' # wk /\ wk.cmd = work

C30_Step ==
    /\ CompletesQueued => (wk.at = workTk /\ wk.at # 0)
    /\ \A c \in Callers :
           WokenByCompletion(c) =>
               /\ lastComplTk = workTk

C30_OwnExecutionOnly == [][C30_Step]_vars

(***************************************************************************)
(* C31: when two threads call qm35_spi_send concurrently on one device,    *)
(* each send's bus transaction carries the message type and payload of the *)
(* caller whose work item is executing: one caller's parameters are never  *)
(* transmitted on behalf of the other, and every send that reports success *)
(* has had its own payload transmitted.                                    *)
(***************************************************************************)
\* The worker enters the send work of the item that is queued now.
ExecutesQueuedSend ==
    /\ wk.pc = "call"
    /\ wk'.pc = "exec"
    /\ wk.cmd = WorkSend
    /\ work = WorkSend
    /\ wk.tk = workTk

\* The worker completes the send it ran for the item that is queued now.
CompletesOwnSend ==
    /\ wk.pc = "dequeue"
    /\ wk' # wk
    /\ wk.cmd = WorkSend
    /\ work = WorkSend
    /\ wk.at = workTk
    /\ wk.tk = workTk

\* The enqueuer of the queued item holds the mutex until it is woken.
C31_Step ==
    /\ ExecutesQueuedSend => wk'.params = mtx
    /\ CompletesOwnSend => wk.params = mtx

C31_OwnParametersSent == [][C31_Step]_vars

(***************************************************************************)
(* C32: the worker only ever executes a work descriptor that is currently  *)
(* queued: for every interleaving of the worker loop with an enqueuer      *)
(* being cancelled by a signal, the worker never reads an empty (NULL)     *)
(* in-flight slot as the item to execute.                                  *)
(***************************************************************************)
\* The worker has read wk->work and is about to call through it.
AboutToCall == wk.pc = "call"

C32_NeverReadsEmptySlot == AboutToCall => wk.cmd # NIL

(***************************************************************************)
(* C33: while a High-priority handler is registered for a message type T,  *)
(* no transport send for T submitted through qm35_transport_send is        *)
(* started, for every interleaving of qm35_transport_send with a           *)
(* concurrent bypass open or set-expected-type that claims T.              *)
(***************************************************************************)
\* qm35_transport_send() calls the send operation of the transport.
StartsTransportSend ==
    /\ ts.pc = "checked"
    /\ ts'.pc = "done"
    /\ ts'.sendCalls = ts.sendCalls + 1

C33_Step ==
    StartsTransportSend =>
        SlotCb(rx_handlers, ts.type, QM35_TRANSPORT_PRIO_HIGH) = NULL

C33_NoSendWhileClaimed == [][C33_Step]_vars

(***************************************************************************)
(* C34: in every reachable state in which the bypass channel is open, its  *)
(* expected type is a valid message type and the High-priority slot of     *)
(* that type holds the bypass handler, after any sequence of open,         *)
(* set-expected-type, reset, probe and close operations.                   *)
(***************************************************************************)
\* A qm35_bypass_set_expected() outside the lock is between its steps.
SetExpectedRunning ==
    \E t \in BThreads : bcall[t].pc \in {"se_reg", "se_save"}

\* Checked in the states where no set-expected is in progress.
C34_OpenHoldsHandler ==
    (bypass.opened /\ ~SetExpectedRunning) =>
        /\ bypass.expected_type < QM35_TRANSPORT_MSG_MAX
        /\ SlotCb(rx_handlers, bypass.expected_type,
                  QM35_TRANSPORT_PRIO_HIGH) = qm35_bypass_event_cb

(***************************************************************************)
(* C35: every frame appended to the bypass inbound queue is released       *)
(* exactly once and never while a qm35_bypass_recv is still copying from   *)
(* it, for every interleaving of recv (partial reads included), close by   *)
(* another thread of the owning process and inbound dispatch on the        *)
(* worker.                                                                 *)
(***************************************************************************)
\* The frames a qm35_bypass_recv() is copying from, outside the locks.
BeingCopied == {bcall[t].skb : t \in {u \in BThreads : bcall[u].pc = "recv_copy"}}

C35_FramesReleasedOnce ==
    /\ \A i \in 1 .. MaxFrames : skbs[i].freed <= 1
    /\ \A i \in BeingCopied : skbs[i].freed = 0
    /\ \A i \in Range(bypass.packets) : skbs[i].freed = 0

(***************************************************************************)
(* C36: a framing-level send that fails with -EBUSY (echoed flags 0x00 or  *)
(* 0xff) never records PendingReadState; a send records it only from an    *)
(* exchange whose echoed flags are neither 0x00 nor 0xff, carry the        *)
(* data-waiting flag and come with a nonzero length.                       *)
(***************************************************************************)
\* A qm35_hsspi_send() whose exchange took place has returned.
SendExchanged == fr.op = "send" /\ fr.pc = "done" /\ fr.wrCount = 1

C36_BusySendRecordsNothing ==
    /\ (SendExchanged /\ fr.ret = -EBUSY) => ~fr.recorded
    /\ (SendExchanged /\ fr.recorded) =>
           /\ fr.echoFlags \notin {0, 255}
           /\ HasFlag(fr.echoFlags, HSSPI_SOC_ODW)
           /\ fr.echoLen # 0

(***************************************************************************)
(* C37: the header-only check of qm35_wait_ready_work() (qm35_hsspi_recv   *)
(* without a data buffer) performs exactly one header exchange and neither *)
(* depends on nor modifies PendingReadState: it fails only when the        *)
(* exchange itself fails, whether or not an earlier send left              *)
(* PendingReadState valid.                                                 *)
(***************************************************************************)
\* One poll of qm35_wait_ready_work() has returned.
HeaderCheckReturned == fr.op = "recv" /\ fr.check /\ fr.pc = "done"

C37_CheckIgnoresPendingRead ==
    HeaderCheckReturned =>
        /\ fr.chkCount = 1 /\ fr.prdCount = 0 /\ fr.rdCount = 0
        /\ fr.ret \in SpiSyncResults
        /\ prd_done = fr.validAtStart
        /\ prd_length = fr.lenAtStart

(***************************************************************************)
(* C38: with combined read/write enabled, when qm35_spi_send() returns     *)
(* with success, or with a failure after exhausting its retries,           *)
(* should_write is false: no outbound frame remains queued for a later     *)
(* receive to transmit.                                                    *)
(***************************************************************************)
\* qm35_spi_send() left its retry loop on a retryable result: every retry
\* was used.
RetriesExhausted ==
    /\ SendRetryable(orch.ret)
    /\ orch.attempts = QM35_HSSPI_RETRY_COUNT + 1

C38_NothingLeftToPiggyback ==
    (SendReturned /\ combined /\ (orch.ret = 0 \/ RetriesExhausted)) =>
        ~should_write

(***************************************************************************)
(* C39: for any sequence of start, stop and power(on/off) calls in which   *)
(* every stop matches an earlier successful start, the power usage count   *)
(* never goes below zero, and it is back at its initial value once every   *)
(* start has been matched by its stop and no power(on) keeps the device    *)
(* on.                                                                     *)
(***************************************************************************)
\* No call is in progress and every successful start has had its stop.
AllStartsMatched ==
    /\ OutstandingStarts = 0
    /\ \A t \in PThreads : pcall[t].pc = "idle"

C39_UsageCountBalanced ==
    /\ power.usage_count >= 0
    /\ (AllStartsMatched /\ power.forced = 0) =>
           power.usage_count = PmSuspended.usage_count

(***************************************************************************)
(* C40: with probing enabled, qm35_register_device() returns success and   *)
(* notifies ONLINE only if a probe of the device succeeded; when the probe *)
(* fails and the firmware update flashes nothing, the registration fails   *)
(* with an error, the transport is stopped and DELETE is notified.         *)
(***************************************************************************)
\* A registration with probing has returned after its notifications.
RegisteredWithProbing ==
    regdev.pc = "done" /\ ~regdev.no_probing /\ regdev.events # <<>>

NotifiedOnline == QM35_NOTIFIER_EVENT_ONLINE \in SeqRange(regdev.events)
NotifiedDelete == QM35_NOTIFIER_EVENT_DELETE \in SeqRange(regdev.events)

\* qm35_transport_fw_update() was called and flashed nothing.
FlashedNothing == regdev.fw \in {0, 1}

C40_OnlineOnlyAfterProbe ==
    RegisteredWithProbing =>
        /\ (regdev.rc = 0 /\ NotifiedOnline) => regdev.probe_ok
        /\ (regdev.probe_failed /\ FlashedNothing) =>
               (regdev.rc < 0 /\ ~regdev.started /\ NotifiedDelete)

====
